---- MODULE Spec2Model ----
(***************************************************************************)
(* Model of the asynchronous cache-consistency engine of                   *)
(* caching-patterns: the write-behind durability queue                     *)
(* (write_behind/main.py) and the refresh-ahead scheduler                  *)
(* (refresh_ahead/main.py).  Redis and Postgres are modelled by the        *)
(* operations the code calls on them; every await that touches a store is  *)
(* one step of the background worker or request handler that runs it.      *)
(* The services open the same Postgres database, so they share the table   *)
(* users; each has a redis database of its own.                            *)
(***************************************************************************)
EXTENDS Integers, Sequences, FiniteSets, TLC

(* ------------------------------------------------------------------ *)
(* Bounds of the model                                                 *)
(* ------------------------------------------------------------------ *)
\* write-behind calls (create/update/delete) in one behaviour
MaxWrites == 2
\* times db.execute raises for a reason that passes (connection, timeout)
MaxFails == 1
\* errors of a worker loop that are counted
MaxErrors == 2
\* largest backlog the drain specification starts from
MaxBacklog == 11
\* calls of _flush_to_database in one behaviour of the drain specification
MaxTicks == 4

(* ------------------------------------------------------------------ *)
(* Program constants of write_behind/main.py                           *)
(* ------------------------------------------------------------------ *)
BATCH_SIZE == 10

\* the ids the foreground calls address; the users table is seeded with them
Ids == {1, 2}

\* Optional[User] = None, as a record so that it compares with a User
NoUser == [id |-> 0, name |-> "", email |-> "", age |-> 0]

\* request bodies the foreground calls are tried with (User without id)
TestUser == [name |-> "Test User", email |-> "a@example.com", age |-> 30]
UpdatedUser ==
    [name |-> "Updated User", email |-> "a@example.com", age |-> 31]
UserInputs == {TestUser, UpdatedUser}

\* rows the users table is seeded with before the service starts
SeedRow(i) ==
    [id |-> i, name |-> "Seed User",
     email |-> IF i = 1 THEN "a@example.com"
               ELSE IF i = 2 THEN "b@example.com" ELSE "s@example.com",
     age |-> 29]

(* ------------------------------------------------------------------ *)
(* Conversions                                                         *)
(* ------------------------------------------------------------------ *)
\* f"user:{user_id}"
cache_key(user_id) == <<"user", user_id>>

\* json.dumps / json.loads: the text of a dict, and the dict of a text
json_dumps(d) == [json |-> d]
json_loads(s) == s.json

\* User(...) with user.id set, then user.model_dump()
model_dump(user_id, u) ==
    [id |-> user_id, name |-> u.name, email |-> u.email, age |-> u.age]

(* ------------------------------------------------------------------ *)
(* The users table (Postgres): id |-> row, email unique                *)
(* ------------------------------------------------------------------ *)
RowsWithEmail(tbl, e) == {i \in DOMAIN tbl : tbl[i].email = e}

\* db.fetchrow("SELECT ... WHERE id = $1"): the row, or None
fetchrow(tbl, user_id) ==
    IF user_id \in DOMAIN tbl THEN tbl[user_id] ELSE NoUser

\* a plain INSERT into a table without the conflict clause: always a new row
db_insert(tbl, seq, ud) ==
    [tbl |-> [i \in DOMAIN tbl \cup {seq + 1} |->
                IF i = seq + 1 THEN model_dump(seq + 1, ud) ELSE tbl[i]],
     seq |-> seq + 1]

\* INSERT INTO users (name, email, age) ... ON CONFLICT (email) DO UPDATE
\* SET name, age: the table and the id sequence afterwards.  The default of
\* the id column takes a value of the sequence before the conflict is
\* found, and the value is not given back
db_create(tbl, seq, ud) ==
    IF RowsWithEmail(tbl, ud.email) # {}
    THEN [tbl |-> [i \in DOMAIN tbl |->
                    IF tbl[i].email = ud.email
                    THEN [tbl[i] EXCEPT !.name = ud.name, !.age = ud.age]
                    ELSE tbl[i]],
          seq |-> seq + 1]
    ELSE [tbl |-> [i \in DOMAIN tbl \cup {seq + 1} |->
                    IF i = seq + 1 THEN model_dump(seq + 1, ud) ELSE tbl[i]],
          seq |-> seq + 1]

\* UPDATE users SET name, email, age WHERE id = $4 (no row: nothing changes)
db_update(tbl, seq, ud) ==
    [tbl |-> [i \in DOMAIN tbl |->
                IF i = ud.id THEN model_dump(i, ud) ELSE tbl[i]],
     seq |-> seq]

\* DELETE FROM users WHERE id = $1
db_delete(tbl, seq, ud) ==
    [tbl |-> [i \in DOMAIN tbl \ {ud.id} |-> tbl[i]], seq |-> seq]

\* a store that reports an UPDATE or DELETE that matched no row as an error
db_raises_absent(tbl, write) ==
    /\ write.operation \in {"update", "delete"}
    /\ \/ write.user.id \notin DOMAIN tbl
       \/ /\ write.operation = "update"
          /\ RowsWithEmail(tbl, write.user.email) \ {write.user.id} # {}

\* the UPDATE raises a unique violation when another row owns the email
db_raises(tbl, write) ==
    /\ write.operation = "update"
    /\ write.user.id \in DOMAIN tbl
    /\ RowsWithEmail(tbl, write.user.email) \ {write.user.id} # {}

\* the statement _flush_to_database executes for one queued write; for an
\* operation that is none of the three no statement is executed
db_execute(tbl, seq, write) ==
    IF write.operation = "create" THEN db_create(tbl, seq, write.user)
    ELSE IF write.operation = "update" THEN db_update(tbl, seq, write.user)
    ELSE IF write.operation = "delete" THEN db_delete(tbl, seq, write.user)
    ELSE [tbl |-> tbl, seq |-> seq]

(* ------------------------------------------------------------------ *)
(* State                                                               *)
(* ------------------------------------------------------------------ *)
\* the three services open one database (DATABASE_URL) and its table users
VARIABLES
    users,            \* the users table, id |-> row
    users_id_seq      \* last value of the table's id sequence

db_vars == <<users, users_id_seq>>

VARIABLES
    wb_cache,         \* write-behind redis keys user:<id> |-> JSON text
    write_queue,      \* redis list "write_queue" of JSON texts
    user_id_counter,  \* redis counter "user_id_counter"
    write_stats,      \* the write_stats dict
    flush,            \* each running _flush_to_database: pc, writes, index
    fails_left,       \* passing failures db.execute may still raise
    failed,           \* history: timestamps whose db.execute has raised
    applied,          \* history: timestamps whose db.execute succeeded
    enqueued,         \* history: timestamps whose rpush by a write call was answered
    written,          \* history: id |-> dict of the last create/update still cached
    deleted,          \* history: ids whose last write-behind call was a delete
    backlog,          \* history: queue length the drain run started from
    ticks             \* history: per caller, completed calls of _flush_to_database

wb_vars == <<wb_cache, write_queue, user_id_counter, write_stats, flush,
             fails_left, failed, applied, enqueued, written,
             deleted, backlog, ticks>>

VARIABLES
    ra_cache,         \* refresh-ahead redis keys user:<id> |-> JSON text, ttl
    access_counts,    \* redis hash "access_counts": key |-> count
    hot_items,        \* redis set "hot_items"
    refresh_stats,    \* the refresh_stats dict
    refresh,          \* the running _refresh_hot_items: pc, keys left, key, row
    ra_calls,         \* per handler, the foreground call in progress
    ra_fails_left,    \* times db.fetchrow may still raise in _refresh_user
    scan_low,         \* history: keys this tick found below the threshold
    lookup_failed,    \* history: of those, keys whose lookup raised or found no row
    rewritten         \* history: key |-> lifetime this tick rewrote its entry with

ra_vars == <<ra_cache, access_counts, hot_items,
             refresh_stats, refresh, ra_calls, ra_fails_left, scan_low,
             lookup_failed, rewritten>>

VARIABLES
    wt_cache,            \* write-through redis keys user:<id> |-> JSON text
    wt_calls,            \* each request handler: the call it runs and where it is
    wt_db_fails_left,    \* times the database may still fail in passing
    wt_redis_fails_left, \* times redis may still fail
    wt_raised,           \* history: some store call of a write-through call raised
    wt_started           \* history: write-through calls started

wt_vars == <<wt_cache, wt_calls, wt_db_fails_left,
             wt_redis_fails_left, wt_raised, wt_started>>

VARIABLES
    crashes,          \* history: times the write-behind process was killed
    lost,             \* history: timestamps a kill took out of a flush's memory
    since_tick,       \* seconds since the refresh worker went to sleep
    expired,          \* history: keys whose entry ran out while they were hot
    wb_read,          \* the write-behind get_user call in progress
    wb_calls,         \* each request handler: the write-behind write call it runs
    cache_changes     \* history: cache entries set or deleted by write calls

run_vars == <<crashes, lost, since_tick, expired, wb_read, wb_calls,
              cache_changes>>

VARIABLES
    flush_task,       \* the asyncio task of _flush_worker
    refresh_task,     \* the asyncio task of _refresh_worker
    lifespan,         \* where the lifespan of each of the two services is
    worker_errors     \* history: per service, errors the worker loop has logged

task_vars == <<flush_task, refresh_task, lifespan, worker_errors>>

other_vars == <<wt_vars, run_vars, task_vars>>

vars == <<db_vars, wb_vars, ra_vars, other_vars>>

\* the callers of _flush_to_database: the _flush_worker loop and force_flush
Flushers == {"worker", "manual"}

IdleFlush == [pc |-> "idle", writes |-> <<>>, i |-> 0]

\* request handlers that run concurrently
Callers == {1, 2}

\* a handler that runs no write call
IdleCall == [pc |-> "idle", operation |-> "", user |-> NoUser, timestamp |-> 0]

IdleRead == [pc |-> "idle", id |-> 0, row |-> NoUser]

\* write calls that have started and are not counted in cached_writes yet
uncounted == {c \in Callers : wb_calls[c].pc \in {"setex", "rpush"}}

\* handler c takes a new write call (the bound counts the write calls made
\* besides the backlog a behaviour starts from)
wb_free(c) ==
    /\ wb_calls[c].pc = "idle"
    /\ write_stats.cached_writes + Cardinality(uncounted)
          < backlog + MaxWrites

NoFlushInProgress == \A f \in Flushers : flush[f].pc = "idle"

QueuedTimestamps ==
    {json_loads(write_queue[n]).timestamp : n \in 1..Len(write_queue)}

\* datetime.now() of the next write_operation dict: a write call takes one
\* logical instant right after its setex / delete of the cache was answered
now == cache_changes + 1

(* ------------------------------------------------------------------ *)
(* Redis operations the code calls                                     *)
(* ------------------------------------------------------------------ *)
\* redis.setex(key, CACHE_TTL, value) on the write-behind keys
setex(c, key, value) ==
    [k \in DOMAIN c \cup {key} |-> IF k = key THEN value ELSE c[k]]

\* redis.delete(key)
delete(c, key) == [k \in DOMAIN c \ {key} |-> c[k]]

\* history maps: note and forget an entry
remember(m, k, v) == [x \in DOMAIN m \cup {k} |-> IF x = k THEN v ELSE m[x]]
forget(m, k) == [x \in DOMAIN m \ {k} |-> m[x]]

\* redis.rpush(write_queue_key, json.dumps(write))
rpush(q, write) == Append(q, json_dumps(write))

(* ------------------------------------------------------------------ *)
(* WriteBehindCache: foreground calls                                  *)
(* ------------------------------------------------------------------ *)
\* what WriteBehindCache.get_user(user_id) returns in the current state
wb_get_user_ret(c, tbl, user_id) ==
    IF cache_key(user_id) \in DOMAIN c
    THEN json_loads(c[cache_key(user_id)])
    ELSE fetchrow(tbl, user_id)

\* get_user: cached = redis.get(cache_key); a hit returns the cached user
wb_read_get(user_id) ==
    /\ wb_read.pc = "idle"
    /\ wb_read' = IF cache_key(user_id) \in DOMAIN wb_cache THEN IdleRead
                  ELSE [pc |-> "fetch", id |-> user_id, row |-> NoUser]
    /\ UNCHANGED <<db_vars, wb_vars, wb_calls, cache_changes>>

\* get_user after a miss: row = db.fetchrow(...); without a row it returns None
wb_read_fetch ==
    /\ wb_read.pc = "fetch"
    /\ wb_read' = IF fetchrow(users, wb_read.id) = NoUser THEN IdleRead
                  ELSE [wb_read EXCEPT !.pc = "fill",
                                       !.row = fetchrow(users, wb_read.id)]
    /\ UNCHANGED <<db_vars, wb_vars, wb_calls, cache_changes>>

\* get_user after the lookup: redis.setex(cache_key, CACHE_TTL, row); return
wb_read_fill ==
    /\ wb_read.pc = "fill"
    /\ wb_cache' = setex(wb_cache, cache_key(wb_read.id),
                         json_dumps(wb_read.row))
    /\ wb_read' = IdleRead
    /\ UNCHANGED <<write_queue, user_id_counter, users, users_id_seq,
                   write_stats, flush, fails_left, failed, applied, enqueued, written,
                   deleted, backlog, ticks, wb_calls, cache_changes>>

\* what a step of a write call that touches neither the queue nor the
\* stats leaves alone
wb_only_cache ==
    UNCHANGED <<write_queue, users, users_id_seq, write_stats, flush,
                fails_left, failed, applied, enqueued, wb_read>>

\* create_user: user.id = redis.incr("user_id_counter")
wb_create_user(c, u) ==
    LET user_id == user_id_counter + 1
    IN  /\ wb_free(c)
        /\ user_id \in Ids
        /\ user_id_counter' = user_id
        /\ wb_calls' = [wb_calls EXCEPT ![c] =
             [pc |-> "setex", operation |-> "create",
              user |-> model_dump(user_id, u), timestamp |-> 0]]
        /\ UNCHANGED <<wb_cache, written, deleted, cache_changes>>
        /\ wb_only_cache

\* create_user: redis.setex(cache_key, CACHE_TTL, ...) of the new user is
\* answered and the write_operation dict is built, with datetime.now()
wb_create_setex(c) ==
    LET dump == wb_calls[c].user
    IN  /\ wb_calls[c].pc = "setex"
        /\ wb_cache' = setex(wb_cache, cache_key(dump.id), json_dumps(dump))
        /\ wb_calls' = [wb_calls EXCEPT ![c].pc = "rpush",
                                        ![c].timestamp = now]
        /\ written' = remember(written, dump.id, dump)
        /\ deleted' = deleted \ {dump.id}
        /\ cache_changes' = cache_changes + 1
        /\ UNCHANGED user_id_counter
        /\ wb_only_cache

\* update_user: user.id = user_id; redis.setex(cache_key, CACHE_TTL, ...) is
\* answered and the write_operation dict is built, with datetime.now()
wb_update_user(c, user_id, u) ==
    LET dump == model_dump(user_id, u)
    IN  /\ wb_free(c)
        /\ wb_cache' = setex(wb_cache, cache_key(user_id), json_dumps(dump))
        /\ wb_calls' = [wb_calls EXCEPT ![c] =
             [pc |-> "rpush", operation |-> "update", user |-> dump,
              timestamp |-> now]]
        /\ written' = remember(written, user_id, dump)
        /\ deleted' = deleted \ {user_id}
        /\ cache_changes' = cache_changes + 1
        /\ UNCHANGED user_id_counter
        /\ wb_only_cache

\* delete_user: redis.delete(cache_key) is answered and the write_operation
\* dict is built, with datetime.now()
wb_delete_user(c, user_id) ==
    /\ wb_free(c)
    /\ wb_cache' = delete(wb_cache, cache_key(user_id))
    /\ wb_calls' = [wb_calls EXCEPT ![c] =
         [pc |-> "rpush", operation |-> "delete", user |-> [id |-> user_id],
          timestamp |-> now]]
    /\ written' = forget(written, user_id)
    /\ deleted' = deleted \cup {user_id}
    /\ cache_changes' = cache_changes + 1
    /\ UNCHANGED user_id_counter
    /\ wb_only_cache

\* the write_operation dict handler c has built, with the instant it took
\* before it awaited the rpush
write_operation(c) ==
    [operation |-> wb_calls[c].operation, user |-> wb_calls[c].user,
     timestamp |-> wb_calls[c].timestamp]

\* step 2 of every write call: redis.rpush(write_queue_key, ...), then
\* cached_writes += 1
enqueue(c) ==
    /\ wb_calls[c].pc = "rpush"
    /\ write_queue' = rpush(write_queue, write_operation(c))
    /\ enqueued' = enqueued \cup {write_operation(c).timestamp}
    /\ write_stats' = [write_stats EXCEPT !.cached_writes = @ + 1]
    /\ wb_calls' = [wb_calls EXCEPT ![c].pc = "llen"]
    /\ UNCHANGED <<wb_cache, user_id_counter, users, users_id_seq, flush,
                   fails_left, failed, applied, written, deleted, wb_read,
                   cache_changes>>

\* the redis.rpush of a write call raises: the exception leaves the call,
\* nothing is queued and cached_writes is not counted
wb_rpush_raises(c) ==
    /\ wb_calls[c].pc = "rpush"
    /\ fails_left > 0
    /\ fails_left' = fails_left - 1
    /\ wb_calls' = [wb_calls EXCEPT ![c] = IdleCall]
    /\ UNCHANGED <<wb_cache, write_queue, user_id_counter, users,
                   users_id_seq, write_stats, flush, failed, applied, enqueued,
                   written, deleted, wb_read, cache_changes>>

\* the end of every write call: pending_writes = redis.llen(...); return
wb_llen(c) ==
    /\ wb_calls[c].pc = "llen"
    /\ write_stats' = [write_stats EXCEPT
                         !.pending_writes = Len(write_queue)]
    /\ wb_calls' = [wb_calls EXCEPT ![c] = IdleCall]
    /\ UNCHANGED <<wb_cache, write_queue, user_id_counter, users,
                   users_id_seq, flush, fails_left, failed, applied, enqueued,
                   written, deleted, wb_read, cache_changes>>

\* the CACHE_TTL of a key runs out: redis drops the entry
expire(user_id) ==
    /\ cache_key(user_id) \in DOMAIN wb_cache
    /\ wb_cache' = delete(wb_cache, cache_key(user_id))
    /\ written' = forget(written, user_id)
    /\ UNCHANGED <<write_queue, user_id_counter, users, users_id_seq,
                   write_stats, flush, fails_left, failed, applied, enqueued, deleted>>

(* ------------------------------------------------------------------ *)
(* WriteBehindCache._flush_to_database, one store call per step        *)
(* ------------------------------------------------------------------ *)
\* _flush_worker wakes from its sleep, or force_flush is called
flush_start(f) ==
    /\ flush[f].pc = "idle"
    /\ flush' = [flush EXCEPT ![f] = [pc |-> "pop", writes |-> <<>>, i |-> 0]]
    /\ UNCHANGED <<wb_cache, write_queue, user_id_counter, users,
                   users_id_seq, write_stats, fails_left, failed, applied, enqueued,
                   written, deleted>>

\* a pop loop that stops one write short of BATCH_SIZE
after_lpop_short(fl, q) ==
    IF q = <<>>
    THEN IF fl.writes = <<>> THEN [fl EXCEPT !.pc = "return"]
         ELSE [fl EXCEPT !.pc = "process", !.i = 1]
    ELSE LET writes == Append(fl.writes, json_loads(Head(q)))
         IN  IF Len(writes) = BATCH_SIZE - 1
             THEN [pc |-> "process", writes |-> writes, i |-> 1]
             ELSE [fl EXCEPT !.writes = writes]

\* the flush record after one more lpop of the "for _ in range(BATCH_SIZE)" loop
after_lpop(fl, q) ==
    IF q = <<>>
    THEN IF fl.writes = <<>> THEN [fl EXCEPT !.pc = "return"]
         ELSE [fl EXCEPT !.pc = "process", !.i = 1]
    ELSE LET writes == Append(fl.writes, json_loads(Head(q)))
         IN  IF Len(writes) = BATCH_SIZE
             THEN [pc |-> "process", writes |-> writes, i |-> 1]
             ELSE [fl EXCEPT !.writes = writes]

flush_lpop(f) ==
    /\ flush[f].pc = "pop"
    /\ flush' = [flush EXCEPT ![f] = after_lpop(flush[f], write_queue)]
    /\ write_queue' = IF write_queue = <<>> THEN write_queue
                      ELSE Tail(write_queue)
    /\ UNCHANGED <<wb_cache, user_id_counter, users, users_id_seq,
                   write_stats, fails_left, failed, applied, enqueued, written,
                   deleted>>

\* a loop that goes through the batch from its end
current_write_last(f) ==
    flush[f].writes[Len(flush[f].writes) + 1 - flush[f].i]

\* the write a flush is about to execute
current_write(f) == flush[f].writes[flush[f].i]

\* may db.execute raise for this write now: the statement violates a
\* constraint, or the database fails in passing
execute_raises(tbl, left, write) == db_raises(tbl, write) \/ left > 0

\* a loop that does not move on to the next write of the batch
after_write_again(fl) ==
    IF fl.i = Len(fl.writes) THEN [fl EXCEPT !.pc = "llen"] ELSE fl

\* the flush record once writes[i] has been dealt with
after_write(fl) ==
    IF fl.i = Len(fl.writes) THEN [fl EXCEPT !.pc = "llen"]
    ELSE [fl EXCEPT !.i = fl.i + 1]

\* db.execute succeeds: db_flushes += 1; after the last write of the batch
\* the loop ends and last_flush is set before llen is awaited
flush_execute(f) ==
    /\ flush[f].pc = "process"
    /\ ~db_raises(users, current_write(f))
    /\ LET db == db_execute(users, users_id_seq, current_write(f))
       IN  /\ users' = db.tbl
           /\ users_id_seq' = db.seq
    /\ flush' = [flush EXCEPT ![f] = after_write(flush[f])]
    /\ write_stats' = [write_stats EXCEPT
                         !.db_flushes = @ + 1,
                         !.last_flush = IF flush'[f].pc = "llen" THEN TRUE
                                        ELSE @]
    /\ applied' = applied \cup {current_write(f).timestamp}
    /\ UNCHANGED <<wb_cache, write_queue, user_id_counter, fails_left,
                   failed, enqueued, written, deleted>>

\* an except branch that puts the failed write back at the head (lpush)
requeue_head(q, write) == <<json_dumps(write)>> \o q

\* an except branch that only logs: the failed write is dropped
requeue_drop(q, write) == q

\* the queue after the except branch: the failed write goes to the tail
requeue(q, write) == rpush(q, write)

\* db.execute raises: the except branch is entered and logs the error
flush_raises(f) ==
    /\ flush[f].pc = "process"
    /\ execute_raises(users, fails_left, current_write(f))
    /\ fails_left' = IF db_raises(users, current_write(f)) THEN fails_left
                     ELSE fails_left - 1
    /\ failed' = failed \cup {current_write(f).timestamp}
    /\ flush' = [flush EXCEPT ![f].pc = "requeue"]
    /\ UNCHANGED <<wb_cache, write_queue, user_id_counter, users,
                   users_id_seq, write_stats, applied, enqueued, written, deleted>>

\* an except branch that retries the write in place, keeping the order
flush_retry(f) ==
    /\ flush[f].pc = "requeue"
    /\ flush' = [flush EXCEPT ![f].pc = "process"]
    /\ UNCHANGED <<wb_cache, write_queue, user_id_counter, users,
                   users_id_seq, write_stats, fails_left, failed, applied, enqueued,
                   written, deleted>>

\* the except branch re-queues the write with redis.rpush; after the last
\* write of the batch the loop ends and last_flush is set before llen is
\* awaited
flush_requeue(f) ==
    /\ flush[f].pc = "requeue"
    /\ write_queue' = requeue(write_queue, current_write(f))
    /\ flush' = [flush EXCEPT
                   ![f] = after_write([flush[f] EXCEPT !.pc = "process"])]
    /\ write_stats' = [write_stats EXCEPT
                         !.last_flush = IF flush'[f].pc = "llen" THEN TRUE
                                        ELSE @]
    /\ UNCHANGED <<wb_cache, user_id_counter, users, users_id_seq,
                   fails_left, failed, applied, enqueued, written, deleted>>

\* pending_writes = llen(write_queue); return.
\* With no writes popped the call returns before touching the stats.
flush_return(f) ==
    /\ flush[f].pc \in {"llen", "return"}
    /\ write_stats' =
         IF flush[f].pc = "llen"
         THEN [write_stats EXCEPT !.pending_writes = Len(write_queue)]
         ELSE write_stats
    /\ flush' = [flush EXCEPT ![f] = IdleFlush]
    /\ UNCHANGED <<wb_cache, write_queue, user_id_counter, users,
                   users_id_seq, fails_left, failed, applied, enqueued, written,
                   deleted>>

Empty == [k \in {} |-> NoUser]

(* ------------------------------------------------------------------ *)
(* RefreshAheadCache (refresh_ahead/main.py)                           *)
(* ------------------------------------------------------------------ *)
CACHE_TTL == 60
\* REFRESH_THRESHOLD = 0.75, in percent
REFRESH_THRESHOLD == 75
ACCESS_THRESHOLD == 3

\* seconds that pass in one step of the clock
TimeStep == 25
\* get_user calls in one behaviour
MaxReads == 4
\* get_user calls in one behaviour that also has writes and refresh ticks
MaxRefreshReads == 3
\* proactive refreshes counted in one behaviour
MaxRefreshes == 1

\* CACHE_TTL * (1 - REFRESH_THRESHOLD)
refresh_below == (CACHE_TTL * (100 - REFRESH_THRESHOLD)) \div 100

OtherUser == [name |-> "Other User", email |-> "b@example.com", age |-> 30]
RaInputs == {UpdatedUser}

\* int(item_key.split(":")[1])
key_user_id(item_key) == item_key[2]

\* a setex that gives the entry half the lifetime it was asked for
ra_setex_short(c, key, ttl, value) ==
    [k \in DOMAIN c \cup {key} |->
        IF k = key THEN [value |-> value, ttl |-> ttl \div 2] ELSE c[k]]

\* redis.setex(key, ttl, value) on the refresh-ahead keys
ra_setex(c, key, ttl, value) ==
    [k \in DOMAIN c \cup {key} |->
        IF k = key THEN [value |-> value, ttl |-> ttl] ELSE c[k]]

\* redis.ttl(key): the remaining lifetime, -2 when the key does not exist
redis_ttl(c, key) == IF key \in DOMAIN c THEN c[key].ttl ELSE -2

\* d seconds pass: lifetimes shrink and entries at their end are dropped
advance(c, d) ==
    [k \in {x \in DOMAIN c : c[x].ttl > d} |-> [c[k] EXCEPT !.ttl = @ - d]]

\* redis.hincrby(access_count_key, cache_key, 1): the hash afterwards
hincrby(h, key) ==
    [k \in DOMAIN h \cup {key} |->
        IF k = key THEN (IF key \in DOMAIN h THEN h[key] + 1 ELSE 1)
        ELSE h[k]]

\* the count a key has in the hash (0 when it has no field)
access_count(h, key) == IF key \in DOMAIN h THEN h[key] ELSE 0

\* a tracker that keeps a key hot only at the threshold itself
track_hot_window(hot, key, n) ==
    IF n = ACCESS_THRESHOLD THEN hot \cup {key} ELSE hot \ {key}

\* a promotion that needs one access more than ACCESS_THRESHOLD
track_hot_above(hot, key, n) ==
    IF n > ACCESS_THRESHOLD THEN hot \cup {key} ELSE hot

\* _track_access: the hot set after the count of key was incremented to n
track_hot(hot, key, n) ==
    IF n >= ACCESS_THRESHOLD THEN hot \cup {key} ELSE hot

\* INSERT or UPDATE would break the unique email of the users table
email_taken(tbl, user_id, email) == RowsWithEmail(tbl, email) \ {user_id} # {}

\* a handler that runs no call of RefreshAheadCache
IdleRa == [op |-> "", pc |-> "idle", id |-> 0, row |-> NoUser, n |-> 0]

\* no foreground call of refresh-ahead is between two of its store calls
NoRaCall == \A c \in Callers : ra_calls[c] = IdleRa

\* what a step of a foreground call leaves alone besides the stores
ra_call_rest ==
    UNCHANGED <<refresh, ra_fails_left, scan_low, lookup_failed, rewritten>>

\* GET /users/{user_id}: total_reads += 1, then get_user calls
\* _track_access, which awaits redis.hincrby(...)
ra_get_user(c, user_id) ==
    /\ ra_calls[c].pc = "idle"
    /\ refresh_stats' = [refresh_stats EXCEPT !.total_reads = @ + 1]
    /\ ra_calls' = [ra_calls EXCEPT ![c] =
         [op |-> "get", pc |-> "hincrby", id |-> user_id, row |-> NoUser,
          n |-> 0]]
    /\ UNCHANGED <<ra_cache, users, users_id_seq, access_counts, hot_items>>
    /\ ra_call_rest

\* _track_access: access_count = redis.hincrby(...) returns; "if
\* access_count >= ACCESS_THRESHOLD" decides whether the sadd is awaited next
ra_track_hincrby(c) ==
    LET key == cache_key(ra_calls[c].id)
        counts == hincrby(access_counts, key)
    IN  /\ ra_calls[c].pc = "hincrby"
        /\ access_counts' = counts
        /\ ra_calls' = [ra_calls EXCEPT ![c] =
             IF counts[key] >= ACCESS_THRESHOLD
             THEN [@ EXCEPT !.pc = "sadd", !.n = counts[key]]
             ELSE [@ EXCEPT !.pc = "get"]]
        /\ UNCHANGED <<ra_cache, users, users_id_seq, hot_items,
                       refresh_stats>>
        /\ ra_call_rest

\* _track_access: redis.sadd(hot_items_key, cache_key)
ra_track_sadd(c) ==
    /\ ra_calls[c].pc = "sadd"
    /\ hot_items' = track_hot(hot_items, cache_key(ra_calls[c].id),
                              ra_calls[c].n)
    /\ ra_calls' = [ra_calls EXCEPT ![c].pc = "scard"]
    /\ UNCHANGED <<ra_cache, users, users_id_seq, access_counts,
                   refresh_stats>>
    /\ ra_call_rest

\* _track_access: refresh_stats["hot_items"] = redis.scard(hot_items_key)
ra_track_scard(c) ==
    /\ ra_calls[c].pc = "scard"
    /\ refresh_stats' =
         [refresh_stats EXCEPT !.hot_items = Cardinality(hot_items)]
    /\ ra_calls' = [ra_calls EXCEPT ![c].pc = "get", ![c].n = 0]
    /\ UNCHANGED <<ra_cache, users, users_id_seq, access_counts,
                   hot_items>>
    /\ ra_call_rest

\* get_user: cached = redis.get(cache_key); a hit counts and returns the
\* cached user, a miss counts and goes on to the table
ra_read_get(c) ==
    LET hit == cache_key(ra_calls[c].id) \in DOMAIN ra_cache
    IN  /\ ra_calls[c].pc = "get"
        /\ refresh_stats' =
             [refresh_stats EXCEPT
                !.cache_hits = IF hit THEN @ + 1 ELSE @,
                !.cache_misses = IF hit THEN @ ELSE @ + 1]
        /\ ra_calls' = [ra_calls EXCEPT ![c] =
             IF hit THEN IdleRa ELSE [@ EXCEPT !.pc = "fetch"]]
        /\ UNCHANGED <<ra_cache, users, users_id_seq, access_counts,
                       hot_items>>
        /\ ra_call_rest

\* get_user after a miss: row = db.fetchrow(...); without a row it returns
\* None
ra_read_fetch(c) ==
    LET row == fetchrow(users, ra_calls[c].id)
    IN  /\ ra_calls[c].pc = "fetch"
        /\ ra_calls' = [ra_calls EXCEPT ![c] =
             IF row = NoUser THEN IdleRa
             ELSE [@ EXCEPT !.pc = "fill", !.row = row]]
        /\ UNCHANGED <<ra_cache, users, users_id_seq, access_counts,
                       hot_items, refresh_stats>>
        /\ ra_call_rest

\* get_user after the lookup: redis.setex(cache_key, CACHE_TTL, row); return
ra_read_fill(c) ==
    /\ ra_calls[c].pc = "fill"
    /\ ra_cache' = ra_setex(ra_cache, cache_key(ra_calls[c].id), CACHE_TTL,
                            json_dumps(ra_calls[c].row))
    /\ ra_calls' = [ra_calls EXCEPT ![c] = IdleRa]
    /\ UNCHANGED <<users, users_id_seq, access_counts, hot_items,
                   refresh_stats>>
    /\ ra_call_rest

\* create_user: INSERT ... RETURNING returns the new row
ra_create_user(c, u) ==
    LET user_id == users_id_seq + 1
        row == model_dump(user_id, u)
    IN  /\ ra_calls[c].pc = "idle"
        /\ user_id \in Ids
        /\ ~email_taken(users, user_id, u.email)
        /\ users' = remember(users, user_id, row)
        /\ users_id_seq' = user_id
        /\ ra_calls' = [ra_calls EXCEPT ![c] =
             [op |-> "create", pc |-> "setex", id |-> user_id,
              row |-> row, n |-> 0]]
        /\ UNCHANGED <<ra_cache, access_counts, hot_items, refresh_stats>>
        /\ ra_call_rest

\* create_user with a taken email: the INSERT raises a unique violation
\* after the default of the id column has taken a value of the sequence
ra_create_raises(c, u) ==
    LET user_id == users_id_seq + 1
    IN  /\ ra_calls[c].pc = "idle"
        /\ user_id \in Ids
        /\ email_taken(users, user_id, u.email)
        /\ users_id_seq' = user_id
        /\ UNCHANGED <<ra_cache, users, access_counts, hot_items,
                       refresh_stats, ra_calls>>
        /\ ra_call_rest

\* create_user: redis.setex(cache_key, CACHE_TTL, ...) of the new row; return
ra_create_setex(c) ==
    /\ ra_calls[c].op = "create"
    /\ ra_calls[c].pc = "setex"
    /\ ra_cache' = ra_setex(ra_cache, cache_key(ra_calls[c].id), CACHE_TTL,
                            json_dumps(ra_calls[c].row))
    /\ ra_calls' = [ra_calls EXCEPT ![c] = IdleRa]
    /\ UNCHANGED <<users, users_id_seq, access_counts, hot_items,
                   refresh_stats>>
    /\ ra_call_rest

\* update_user: UPDATE ... RETURNING returns the updated row (no row: the
\* call returns None; a taken email: the statement raises)
ra_update_user(c, user_id, u) ==
    LET row == model_dump(user_id, u)
    IN  /\ ra_calls[c].pc = "idle"
        /\ user_id \in DOMAIN users
        /\ ~email_taken(users, user_id, u.email)
        /\ users' = remember(users, user_id, row)
        /\ ra_calls' = [ra_calls EXCEPT ![c] =
             [op |-> "update", pc |-> "setex", id |-> user_id,
              row |-> row, n |-> 0]]
        /\ UNCHANGED <<ra_cache, users_id_seq, access_counts, hot_items,
                       refresh_stats>>
        /\ ra_call_rest

\* update_user: redis.setex(cache_key, CACHE_TTL, ...) of the updated row;
\* return
ra_update_setex(c) ==
    /\ ra_calls[c].op = "update"
    /\ ra_calls[c].pc = "setex"
    /\ ra_cache' = ra_setex(ra_cache, cache_key(ra_calls[c].id), CACHE_TTL,
                            json_dumps(ra_calls[c].row))
    /\ ra_calls' = [ra_calls EXCEPT ![c] = IdleRa]
    /\ UNCHANGED <<users, users_id_seq, access_counts, hot_items,
                   refresh_stats>>
    /\ ra_call_rest

\* delete_user, first store call: DELETE FROM users ("DELETE 0" returns False)
ra_delete_user(c, user_id) ==
    /\ ra_calls[c].pc = "idle"
    /\ user_id \in DOMAIN users
    /\ users' = forget(users, user_id)
    /\ ra_calls' = [ra_calls EXCEPT ![c] =
         [op |-> "delete", pc |-> "delete", id |-> user_id,
          row |-> NoUser, n |-> 0]]
    /\ UNCHANGED <<ra_cache, users_id_seq, access_counts, hot_items,
                   refresh_stats>>
    /\ ra_call_rest

\* delete_user, second store call: redis.delete(cache_key)
ra_delete_cache(c) ==
    /\ ra_calls[c].pc = "delete"
    /\ ra_cache' = forget(ra_cache, cache_key(ra_calls[c].id))
    /\ ra_calls' = [ra_calls EXCEPT ![c].pc = "srem"]
    /\ UNCHANGED <<users, users_id_seq, access_counts, hot_items,
                   refresh_stats>>
    /\ ra_call_rest

\* delete_user, third store call: redis.srem(hot_items_key, cache_key)
ra_delete_srem(c) ==
    /\ ra_calls[c].pc = "srem"
    /\ hot_items' = hot_items \ {cache_key(ra_calls[c].id)}
    /\ ra_calls' = [ra_calls EXCEPT ![c].pc = "hdel"]
    /\ UNCHANGED <<ra_cache, users, users_id_seq, access_counts,
                   refresh_stats>>
    /\ ra_call_rest

\* delete_user, fourth store call: redis.hdel(access_count_key, cache_key)
ra_delete_hdel(c) ==
    /\ ra_calls[c].pc = "hdel"
    /\ access_counts' = forget(access_counts, cache_key(ra_calls[c].id))
    /\ ra_calls' = [ra_calls EXCEPT ![c] = IdleRa]
    /\ UNCHANGED <<ra_cache, users, users_id_seq, hot_items,
                   refresh_stats>>
    /\ ra_call_rest

\* the clock moves on
ra_advance ==
    /\ DOMAIN ra_cache # {}
    /\ ra_cache' = advance(ra_cache, TimeStep)
    /\ UNCHANGED <<users, users_id_seq, access_counts, hot_items,
                   refresh_stats, refresh, ra_calls, ra_fails_left, scan_low,
                   lookup_failed, rewritten>>

(* ------------------------------------------------------------------ *)
(* RefreshAheadCache._refresh_hot_items, one store call per step       *)
(* ------------------------------------------------------------------ *)
NoKey == <<"user", 0>>

IdleRefresh == [pc |-> "idle", items |-> {}, key |-> NoKey, row |-> NoUser]

\* "for item_key in hot_items": the records the loop can go on with
next_item(items) ==
    IF items = {}
    THEN {[pc |-> "scard", items |-> {}, key |-> NoKey, row |-> NoUser]}
    ELSE {[pc |-> "ttl", items |-> items \ {k}, key |-> k, row |-> NoUser] :
            k \in items}

\* a timer that starts a tick every interval, whether or not the previous
\* tick has returned
refresh_restart ==
    /\ refresh_stats.proactive_refreshes < MaxRefreshes
    /\ refresh' = [IdleRefresh EXCEPT !.pc = "smembers"]
    /\ scan_low' = {}
    /\ lookup_failed' = {}
    /\ rewritten' = Empty
    /\ UNCHANGED <<ra_cache, users, users_id_seq, access_counts,
                   hot_items, refresh_stats, ra_calls, ra_fails_left>>

\* _refresh_worker wakes from its sleep and calls _refresh_hot_items
refresh_start ==
    /\ refresh.pc = "idle"
    /\ refresh' = [refresh EXCEPT !.pc = "smembers"]
    /\ scan_low' = {}
    /\ lookup_failed' = {}
    /\ rewritten' = Empty
    /\ UNCHANGED <<ra_cache, users, users_id_seq, access_counts,
                   hot_items, refresh_stats, ra_calls, ra_fails_left>>

\* hot_items = smembers(...); an empty set returns at once
refresh_smembers ==
    /\ refresh.pc = "smembers"
    /\ refresh' \in (IF hot_items = {} THEN {IdleRefresh}
                     ELSE next_item(hot_items))
    /\ UNCHANGED <<ra_cache, users, users_id_seq, access_counts,
                   hot_items, refresh_stats, ra_calls, ra_fails_left,
                   scan_low, lookup_failed, rewritten>>

\* a tick without the "ttl <= 0" branch: a key without an entry is reloaded
check_ttl_reload(ttl) == IF ttl < refresh_below THEN "fetch" ELSE "skip"

\* a tick that reloads every key that still has an entry
check_ttl_always(ttl) == IF ttl <= 0 THEN "srem" ELSE "fetch"

\* what the tick does with a key whose remaining lifetime is ttl
check_ttl(ttl) ==
    IF ttl <= 0 THEN "srem"
    ELSE IF ttl < refresh_below THEN "fetch"
    ELSE "skip"

\* ttl = redis.ttl(item_key) and the two comparisons
refresh_ttl ==
    LET todo == check_ttl(redis_ttl(ra_cache, refresh.key))
    IN  /\ refresh.pc = "ttl"
        /\ refresh' \in (IF todo = "skip" THEN next_item(refresh.items)
                         ELSE {[refresh EXCEPT !.pc = todo]})
        /\ scan_low' = IF todo = "fetch" THEN scan_low \cup {refresh.key}
                       ELSE scan_low
        /\ UNCHANGED <<ra_cache, users, users_id_seq, access_counts,
                       hot_items, refresh_stats, ra_calls, ra_fails_left,
                       lookup_failed, rewritten>>

\* redis.srem(hot_items_key, item_key); continue
refresh_srem ==
    /\ refresh.pc = "srem"
    /\ hot_items' = hot_items \ {refresh.key}
    /\ refresh' \in next_item(refresh.items)
    /\ UNCHANGED <<ra_cache, users, users_id_seq, access_counts,
                   refresh_stats, ra_calls, ra_fails_left, scan_low,
                   lookup_failed, rewritten>>

\* _refresh_user: db.fetchrow returns; without a row nothing is written and
\* the caller still counts a proactive refresh
refresh_fetch ==
    LET row == fetchrow(users, key_user_id(refresh.key))
    IN  /\ refresh.pc = "fetch"
        /\ refresh' \in (IF row = NoUser THEN next_item(refresh.items)
                         ELSE {[refresh EXCEPT !.pc = "setex", !.row = row]})
        /\ refresh_stats' =
             [refresh_stats EXCEPT
                !.proactive_refreshes = IF row = NoUser THEN @ + 1 ELSE @]
        /\ lookup_failed' = IF row = NoUser
                            THEN lookup_failed \cup {refresh.key}
                            ELSE lookup_failed
        /\ UNCHANGED <<ra_cache, users, users_id_seq, access_counts,
                       hot_items, ra_calls, ra_fails_left, scan_low,
                       rewritten>>

\* _refresh_user: db.fetchrow raises; the except branch logs and goes on
refresh_fetch_raises ==
    /\ refresh.pc = "fetch"
    /\ ra_fails_left > 0
    /\ ra_fails_left' = ra_fails_left - 1
    /\ refresh' \in next_item(refresh.items)
    /\ lookup_failed' = lookup_failed \cup {refresh.key}
    /\ UNCHANGED <<ra_cache, users, users_id_seq, access_counts,
                   hot_items, refresh_stats, ra_calls, scan_low, rewritten>>

\* the lifetime _refresh_user gives the entry it rewrites
refresh_lifetime == CACHE_TTL

\* _refresh_user: redis.setex(cache_key, CACHE_TTL, ...); proactive_refreshes += 1
refresh_setex ==
    LET key == cache_key(key_user_id(refresh.key))
    IN  /\ refresh.pc = "setex"
        /\ ra_cache' = ra_setex(ra_cache, key, refresh_lifetime,
                                json_dumps(refresh.row))
        /\ refresh_stats' =
             [refresh_stats EXCEPT !.proactive_refreshes = @ + 1]
        /\ rewritten' = remember(rewritten, key, ra_cache'[key].ttl)
        /\ refresh' \in next_item(refresh.items)
        /\ UNCHANGED <<users, users_id_seq, access_counts, hot_items,
                       ra_calls, ra_fails_left, scan_low, lookup_failed>>

\* refresh_stats["hot_items"] = scard(...); the tick returns
refresh_scard ==
    /\ refresh.pc = "scard"
    /\ refresh_stats' =
         [refresh_stats EXCEPT !.hot_items = Cardinality(hot_items)]
    /\ refresh' = IdleRefresh
    /\ UNCHANGED <<ra_cache, users, users_id_seq, access_counts,
                   hot_items, ra_calls, ra_fails_left, scan_low,
                   lookup_failed, rewritten>>

RaInit ==
    /\ ra_cache = Empty
    /\ access_counts = Empty
    /\ hot_items = {}
    /\ refresh_stats = [total_reads |-> 0, cache_hits |-> 0,
                        cache_misses |-> 0, proactive_refreshes |-> 0,
                        hot_items |-> 0]
    /\ refresh = IdleRefresh
    /\ ra_calls = [c \in Callers |-> IdleRa]
    /\ ra_fails_left = MaxFails
    /\ scan_low = {}
    /\ lookup_failed = {}
    /\ rewritten = Empty

(* ------------------------------------------------------------------ *)
(* Write-behind specification: write calls of concurrent request       *)
(* handlers, a get_user call and the flush worker, a store call at a   *)
(* time and in any interleaving                                        *)
(* ------------------------------------------------------------------ *)
(* ------------------------------------------------------------------ *)
(* WriteThroughCache (write_through/main.py): every await on a store   *)
(* is one step of the request handler that runs the call               *)
(* ------------------------------------------------------------------ *)
\* write-through calls started in one behaviour
MaxCalls == 3

WtInputs == {UpdatedUser, OtherUser}

\* a handler between calls; id and err tell how its last call ended
done(id, err) ==
    [op |-> "idle", pc |-> "idle", id |-> id, row |-> NoUser, err |-> err]

WtBusy == {c \in Callers : wt_calls[c].op # "idle"}

\* a call may start on handler c
wt_free(c) == wt_calls[c].op = "idle" /\ wt_started < MaxCalls

\* may the database fail now for a reason that passes
wt_db_down == wt_db_fails_left > 0

\* may redis fail now
wt_redis_down == wt_redis_fails_left > 0

\* the frame of a step that only moves handler c
wt_only_call ==
    UNCHANGED <<wt_cache, users, users_id_seq, wt_db_fails_left,
                wt_redis_fails_left, wt_raised>>

\* get_user: cached = redis.get(cache_key); a hit returns
wt_get_user(c, user_id) ==
    /\ wt_free(c)
    /\ wt_started' = wt_started + 1
    /\ wt_calls' = [wt_calls EXCEPT ![c] =
         IF cache_key(user_id) \in DOMAIN wt_cache THEN done(user_id, "")
         ELSE [op |-> "get", pc |-> "fetch", id |-> user_id, row |-> NoUser,
               err |-> ""]]
    /\ wt_only_call

\* get_user: row = db.fetchrow(...); no row returns None
wt_get_fetch(c) ==
    LET row == fetchrow(users, wt_calls[c].id)
    IN  /\ wt_calls[c].op = "get" /\ wt_calls[c].pc = "fetch"
        /\ wt_calls' = [wt_calls EXCEPT ![c] =
             IF row = NoUser THEN done(wt_calls[c].id, "")
             ELSE [@ EXCEPT !.pc = "fill", !.row = row]]
        /\ UNCHANGED wt_started
        /\ wt_only_call

\* get_user: redis.setex(cache_key, CACHE_TTL, ...) of the row read before
wt_get_fill(c) ==
    /\ wt_calls[c].op = "get" /\ wt_calls[c].pc = "fill"
    /\ wt_cache' = setex(wt_cache, cache_key(wt_calls[c].id),
                         json_dumps(wt_calls[c].row))
    /\ wt_calls' = [wt_calls EXCEPT ![c] = done(wt_calls[c].id, "")]
    /\ UNCHANGED <<users, users_id_seq, wt_db_fails_left,
                   wt_redis_fails_left, wt_raised, wt_started>>

\* create_user: INSERT ... RETURNING succeeds
wt_create_user(c, u) ==
    LET user_id == users_id_seq + 1
        row == model_dump(user_id, u)
    IN  /\ wt_free(c)
        /\ user_id \in Ids
        /\ ~email_taken(users, user_id, u.email)
        /\ wt_started' = wt_started + 1
        /\ users' = remember(users, user_id, row)
        /\ users_id_seq' = user_id
        /\ wt_calls' = [wt_calls EXCEPT ![c] =
             [op |-> "create", pc |-> "setex", id |-> user_id, row |-> row,
              err |-> ""]]
        /\ UNCHANGED <<wt_cache, wt_db_fails_left, wt_redis_fails_left,
                       wt_raised>>

\* create_user: the INSERT raises (the email is taken, or the database
\* fails in passing); the except branch logs and raises.  The unique
\* violation is found after the default of the id column has taken a value
\* of the sequence, which is not given back; a failure in passing hits the
\* statement before or after that
wt_create_raises(c, u) ==
    /\ wt_free(c)
    /\ users_id_seq + 1 \in Ids
    /\ email_taken(users, 0, u.email) \/ wt_db_down
    /\ wt_started' = wt_started + 1
    /\ wt_db_fails_left' = IF email_taken(users, 0, u.email)
                           THEN wt_db_fails_left ELSE wt_db_fails_left - 1
    /\ users_id_seq' \in
         (IF email_taken(users, 0, u.email) THEN {users_id_seq + 1}
          ELSE {users_id_seq, users_id_seq + 1})
    /\ wt_raised' = TRUE
    /\ wt_calls' = [wt_calls EXCEPT ![c] = done(0, "db")]
    /\ UNCHANGED <<wt_cache, users, wt_redis_fails_left>>

\* create_user: redis.setex(cache_key, CACHE_TTL, ...) of the created row
wt_create_setex(c) ==
    /\ wt_calls[c].op = "create" /\ wt_calls[c].pc = "setex"
    /\ wt_cache' = setex(wt_cache, cache_key(wt_calls[c].id),
                         json_dumps(wt_calls[c].row))
    /\ wt_calls' = [wt_calls EXCEPT ![c] = done(wt_calls[c].id, "")]
    /\ UNCHANGED <<users, users_id_seq, wt_db_fails_left,
                   wt_redis_fails_left, wt_raised, wt_started>>

\* create_user: the setex raises; the except branch logs and raises
wt_create_setex_raises(c) ==
    /\ wt_calls[c].op = "create" /\ wt_calls[c].pc = "setex"
    /\ wt_redis_down
    /\ wt_redis_fails_left' = wt_redis_fails_left - 1
    /\ wt_raised' = TRUE
    /\ wt_calls' = [wt_calls EXCEPT ![c] = done(wt_calls[c].id, "cache")]
    /\ UNCHANGED <<wt_cache, users, users_id_seq, wt_db_fails_left,
                   wt_started>>

\* update_user: UPDATE ... RETURNING succeeds; no row returns None
wt_update_user(c, user_id, u) ==
    LET row == model_dump(user_id, u)
    IN  /\ wt_free(c)
        /\ ~(user_id \in DOMAIN users
             /\ email_taken(users, user_id, u.email))
        /\ wt_started' = wt_started + 1
        /\ users' = IF user_id \in DOMAIN users
                       THEN remember(users, user_id, row) ELSE users
        /\ wt_calls' = [wt_calls EXCEPT ![c] =
             IF user_id \in DOMAIN users
             THEN [op |-> "update", pc |-> "setex", id |-> user_id,
                   row |-> row, err |-> ""]
             ELSE done(user_id, "")]
        /\ UNCHANGED <<wt_cache, users_id_seq, wt_db_fails_left,
                       wt_redis_fails_left, wt_raised>>

\* update_user: the UPDATE raises (the email is taken by another row, or the
\* database fails in passing); control goes to the except branch
wt_update_raises(c, user_id, u) ==
    LET taken == user_id \in DOMAIN users
                 /\ email_taken(users, user_id, u.email)
    IN  /\ wt_free(c)
        /\ taken \/ wt_db_down
        /\ wt_started' = wt_started + 1
        /\ wt_db_fails_left' = IF taken THEN wt_db_fails_left
                               ELSE wt_db_fails_left - 1
        /\ wt_raised' = TRUE
        /\ wt_calls' = [wt_calls EXCEPT ![c] =
             [op |-> "update", pc |-> "except", id |-> user_id,
              row |-> NoUser, err |-> "db"]]
        /\ UNCHANGED <<wt_cache, users, users_id_seq,
                       wt_redis_fails_left>>

\* update_user: redis.setex(cache_key, CACHE_TTL, ...) of the updated row
wt_update_setex(c) ==
    /\ wt_calls[c].op = "update" /\ wt_calls[c].pc = "setex"
    /\ wt_cache' = setex(wt_cache, cache_key(wt_calls[c].id),
                         json_dumps(wt_calls[c].row))
    /\ wt_calls' = [wt_calls EXCEPT ![c] = done(wt_calls[c].id, "")]
    /\ UNCHANGED <<users, users_id_seq, wt_db_fails_left,
                   wt_redis_fails_left, wt_raised, wt_started>>

\* update_user: the setex raises; control goes to the except branch
wt_update_setex_raises(c) ==
    /\ wt_calls[c].op = "update" /\ wt_calls[c].pc = "setex"
    /\ wt_redis_down
    /\ wt_redis_fails_left' = wt_redis_fails_left - 1
    /\ wt_raised' = TRUE
    /\ wt_calls' = [wt_calls EXCEPT ![c] =
         [@ EXCEPT !.pc = "except", !.err = "cache"]]
    /\ UNCHANGED <<wt_cache, users, users_id_seq, wt_db_fails_left,
                   wt_started>>

\* update_user, except branch: redis.delete(cache_key), then raise
wt_update_invalidate(c) ==
    /\ wt_calls[c].op = "update" /\ wt_calls[c].pc = "except"
    /\ wt_cache' = delete(wt_cache, cache_key(wt_calls[c].id))
    /\ wt_calls' = [wt_calls EXCEPT ![c] =
         done(wt_calls[c].id, wt_calls[c].err)]
    /\ UNCHANGED <<users, users_id_seq, wt_db_fails_left,
                   wt_redis_fails_left, wt_raised, wt_started>>

\* update_user, except branch: the redis.delete raises in its turn
wt_update_invalidate_raises(c) ==
    /\ wt_calls[c].op = "update" /\ wt_calls[c].pc = "except"
    /\ wt_redis_down
    /\ wt_redis_fails_left' = wt_redis_fails_left - 1
    /\ wt_calls' = [wt_calls EXCEPT ![c] =
         done(wt_calls[c].id, wt_calls[c].err)]
    /\ UNCHANGED <<wt_cache, users, users_id_seq, wt_db_fails_left,
                   wt_raised, wt_started>>

\* delete_user: DELETE FROM users succeeds; "DELETE 0" returns False
wt_delete_user(c, user_id) ==
    /\ wt_free(c)
    /\ wt_started' = wt_started + 1
    /\ users' = forget(users, user_id)
    /\ wt_calls' = [wt_calls EXCEPT ![c] =
         IF user_id \in DOMAIN users
         THEN [op |-> "delete", pc |-> "delete", id |-> user_id,
               row |-> NoUser, err |-> ""]
         ELSE done(user_id, "")]
    /\ UNCHANGED <<wt_cache, users_id_seq, wt_db_fails_left,
                   wt_redis_fails_left, wt_raised>>

\* delete_user: the DELETE raises; the except branch logs and raises
wt_delete_raises(c, user_id) ==
    /\ wt_free(c)
    /\ wt_db_down
    /\ wt_started' = wt_started + 1
    /\ wt_db_fails_left' = wt_db_fails_left - 1
    /\ wt_raised' = TRUE
    /\ wt_calls' = [wt_calls EXCEPT ![c] = done(user_id, "db")]
    /\ UNCHANGED <<wt_cache, users, users_id_seq, wt_redis_fails_left>>

\* delete_user: redis.delete(cache_key); return True
wt_delete_cache(c) ==
    /\ wt_calls[c].op = "delete" /\ wt_calls[c].pc = "delete"
    /\ wt_cache' = delete(wt_cache, cache_key(wt_calls[c].id))
    /\ wt_calls' = [wt_calls EXCEPT ![c] = done(wt_calls[c].id, "")]
    /\ UNCHANGED <<users, users_id_seq, wt_db_fails_left,
                   wt_redis_fails_left, wt_raised, wt_started>>

\* delete_user: the redis.delete raises; the except branch logs and raises
wt_delete_cache_raises(c) ==
    /\ wt_calls[c].op = "delete" /\ wt_calls[c].pc = "delete"
    /\ wt_redis_down
    /\ wt_redis_fails_left' = wt_redis_fails_left - 1
    /\ wt_raised' = TRUE
    /\ wt_calls' = [wt_calls EXCEPT ![c] = done(wt_calls[c].id, "cache")]
    /\ UNCHANGED <<wt_cache, users, users_id_seq, wt_db_fails_left,
                   wt_started>>

\* the CACHE_TTL of a write-through key runs out
wt_expire(user_id) ==
    /\ cache_key(user_id) \in DOMAIN wt_cache
    /\ wt_cache' = delete(wt_cache, cache_key(user_id))
    /\ UNCHANGED <<users, users_id_seq, wt_calls, wt_db_fails_left,
                   wt_redis_fails_left, wt_raised, wt_started>>

WtInit ==
    /\ wt_cache = Empty
    /\ wt_calls = [c \in Callers |-> done(0, "")]
    /\ wt_db_fails_left = MaxFails
    /\ wt_redis_fails_left = MaxFails
    /\ wt_raised = FALSE
    /\ wt_started = 0

RunInit ==
    /\ crashes = 0
    /\ lost = {}
    /\ since_tick = 0
    /\ expired = {}
    /\ wb_read = IdleRead
    /\ wb_calls = [c \in Callers |-> IdleCall]

\* lifespan has created both worker tasks and the services take requests
TaskInit ==
    /\ flush_task = "running"
    /\ refresh_task = "running"
    /\ lifespan = [wb |-> "serving", ra |-> "serving"]
    /\ worker_errors = [wb |-> 0, ra |-> 0]

OtherInit == WtInit /\ RunInit /\ TaskInit

WbInit ==
    /\ wb_cache = Empty
    /\ write_queue = <<>>
    /\ user_id_counter = 0
    /\ write_stats = [cached_writes |-> 0, db_flushes |-> 0,
                      pending_writes |-> 0, last_flush |-> FALSE]
    /\ flush = [f \in Flushers |-> IdleFlush]
    /\ fails_left = MaxFails
    /\ failed = {}
    /\ applied = {}
    /\ enqueued = {}
    /\ cache_changes = 0
    /\ written = Empty
    /\ deleted = {}
    /\ backlog = 0
    /\ ticks = [f \in Flushers |-> 0]

\* the services start on a table that holds a row for every id
Init ==
    /\ users = [i \in Ids |-> SeedRow(i)]
    /\ users_id_seq = Cardinality(Ids)
    /\ WbInit /\ RaInit /\ OtherInit

\* the services start on a table that holds the row of user 1 only
RowInit ==
    /\ users = [i \in {1} |-> SeedRow(i)]
    /\ users_id_seq = 1
    /\ WbInit /\ RaInit /\ OtherInit

\* what a step of the write-behind service leaves alone
WbRest == UNCHANGED <<backlog, ticks, ra_vars, other_vars>>

\* what a step of the refresh-ahead service leaves alone
RaRest == UNCHANGED <<wb_vars, other_vars>>

\* what a step of a foreground call of the write-behind service leaves
\* alone, besides the calls in progress
CallRest ==
    UNCHANGED <<backlog, ticks, ra_vars, wt_vars, task_vars, crashes, lost,
                since_tick, expired>>

\* no write call is between two of its store calls
NoWriteInProgress == \A c \in Callers : wb_calls[c].pc = "idle"

\* request handlers are interchangeable: a new write call runs in the idle
\* handler with the lowest number
NextHandler(c) == \A d \in Callers : d < c => wb_calls[d].pc # "idle"

CreateUser ==
    \E c \in Callers, u \in UserInputs :
        NextHandler(c) /\ wb_create_user(c, u) /\ CallRest

UpdateUser ==
    \E c \in Callers, id \in Ids, u \in UserInputs :
        NextHandler(c) /\ wb_update_user(c, id, u) /\ CallRest

DeleteUser ==
    \E c \in Callers, id \in Ids :
        NextHandler(c) /\ wb_delete_user(c, id) /\ CallRest

\* a write call in progress carries out its next store call
CallStep ==
    \/ \E c \in Callers : wb_create_setex(c) /\ CallRest
    \/ \E c \in Callers : enqueue(c) /\ CallRest
    \/ \E c \in Callers : wb_llen(c) /\ CallRest

\* the get_user call in progress carries out its next store call
ReadStep ==
    \/ wb_read_fetch /\ CallRest
    \/ wb_read_fill /\ CallRest

\* the worker's next tick (its previous one has returned)
FlushStart == flush_start("worker") /\ UNCHANGED <<backlog, ticks, ra_vars, other_vars>>

FlushLpop == \E f \in Flushers : flush_lpop(f) /\ UNCHANGED <<backlog, ticks, ra_vars, other_vars>>

FlushExecute ==
    \E f \in Flushers : flush_execute(f) /\ UNCHANGED <<backlog, ticks, ra_vars, other_vars>>

FlushRaises ==
    \E f \in Flushers : flush_raises(f) /\ UNCHANGED <<backlog, ticks, ra_vars, other_vars>>

FlushRequeue ==
    \E f \in Flushers : flush_requeue(f) /\ UNCHANGED <<backlog, ticks, ra_vars, other_vars>>

FlushReturn ==
    \E f \in Flushers : flush_return(f) /\ UNCHANGED <<backlog, ticks, ra_vars, other_vars>>

Next ==
    \/ \E id \in Ids : wb_read_get(id) /\ CallRest
    \/ ReadStep
    \/ CreateUser
    \/ UpdateUser
    \/ DeleteUser
    \/ CallStep
    \/ \E id \in Ids : expire(id) /\ WbRest
    \/ FlushStart
    \/ FlushLpop
    \/ FlushExecute
    \/ FlushRaises
    \/ FlushRequeue
    \/ FlushReturn

Spec == Init /\ [][Next]_vars


(* ------------------------------------------------------------------ *)
(* Fairness: the event loop keeps running the flush worker             *)
(* ------------------------------------------------------------------ *)
\* the calls that touch the queue: reads and expiry change only the cache,
\* which no step of a flush reads
QueueNext ==
    \/ CreateUser
    \/ UpdateUser
    \/ DeleteUser
    \/ CallStep
    \/ FlushStart
    \/ FlushLpop
    \/ FlushExecute
    \/ FlushRaises
    \/ FlushRequeue
    \/ FlushReturn

QueueSpec == Init /\ [][QueueNext]_vars

FairSpec ==
    /\ Init
    /\ [][QueueNext]_vars
    /\ WF_vars(FlushStart)
    /\ WF_vars(FlushLpop)
    /\ WF_vars(FlushExecute \/ FlushRaises)
    /\ WF_vars(FlushRequeue)
    /\ WF_vars(FlushReturn)

(* ------------------------------------------------------------------ *)
(* Claims on the write-behind specification                            *)
(* ------------------------------------------------------------------ *)
\* C1: write-behind visibility. Whenever no write call is in progress, for
\* every id whose last write-behind create or update has returned and whose
\* entry has not expired since, a get_user(id) issued now returns the value
\* just written, whether or not the flush worker has applied the mutation to
\* the users table.
C1_WriteVisible ==
    NoWriteInProgress =>
        \A id \in DOMAIN written :
            wb_get_user_ret(wb_cache, users, id) = written[id]

\* C2: write-behind delete visibility. Whenever no write call is in
\* progress, for every id whose last write-behind call was a delete,
\* get_user(id) reports None (NotFound), before and after the queued delete
\* is flushed.
C2_DeleteVisible ==
    NoWriteInProgress =>
        \A id \in deleted : wb_get_user_ret(wb_cache, users, id) = NoUser

\* the timestamps of writes that were queued and never executed successfully
Unapplied == enqueued \ applied

\* db.execute raises for the write with timestamp t
FailsAt(t) ==
    \E f \in Flushers :
        /\ flush[f].pc = "process"
        /\ current_write(f).timestamp = t
        /\ flush_raises(f)

\* C3: at-least-once application. Every queued mutation is eventually
\* executed successfully, unless its execution fails infinitely often
\* (under FairSpec: flush ticks keep firing).
C3_AtLeastOnce ==
    \A t \in 1..MaxWrites :
        \/ []<><<FailsAt(t)>>_vars
        \/ (t \in QueuedTimestamps) ~> (t \in applied)

\* a mutation failed, was re-queued and was applied by a later attempt
C3_Witness == \E t \in failed : t \in applied /\ NoFlushInProgress

\* C5: poison persistence. Between flush ticks every mutation whose execution
\* has failed and has not succeeded since is in the queue again, so the queue
\* holds at least one entry for as long as such a mutation exists.
C5_PoisonPersists ==
    NoFlushInProgress =>
        /\ (failed \ applied) \subseteq QueuedTimestamps
        /\ (failed \ applied # {} => Len(write_queue) >= 1)

\* a tick has completed, and an update that violates the unique email
\* (it fails on every attempt) has failed and is back in the queue
C5_Witness ==
    /\ NoFlushInProgress
    /\ write_stats.last_flush
    /\ \E n \in 1..Len(write_queue) :
        /\ db_raises(users, json_loads(write_queue[n]))
        /\ json_loads(write_queue[n]).timestamp \in failed

\* C10: create idempotence. On every reachable users table, executing the
\* same create a second time changes nothing: the table is the one after the
\* first execution, with exactly one row of that email, carrying the
\* create's name and age.
C10_CreateIdempotent ==
    \A u \in UserInputs :
        LET once == db_create(users, users_id_seq, model_dump(0, u))
            twice == db_create(once.tbl, once.seq, model_dump(0, u))
        IN  /\ twice.tbl = once.tbl
            /\ Cardinality(RowsWithEmail(twice.tbl, u.email)) = 1
            /\ \A i \in RowsWithEmail(twice.tbl, u.email) :
                 twice.tbl[i].name = u.name /\ twice.tbl[i].age = u.age

\* one tick has executed two creates of the same name, email and age, and
\* the table holds one row of that email
C10_Witness ==
    \E f \in Flushers :
        /\ flush[f].pc = "llen"
        /\ Len(flush[f].writes) = 2
        /\ flush[f].writes[1].operation = "create"
        /\ flush[f].writes[2].operation = "create"
        /\ flush[f].writes[1].user.name = flush[f].writes[2].user.name
        /\ flush[f].writes[1].user.age = flush[f].writes[2].user.age
        /\ applied = {1, 2}
        /\ Cardinality(RowsWithEmail(users, flush[f].writes[1].user.email)) = 1


(* ------------------------------------------------------------------ *)
(* Drain specification: a backlog of queued updates of user 1, then    *)
(* flush ticks of the worker and forced flushes, which may overlap,    *)
(* with no failure and no new write                                    *)
(* ------------------------------------------------------------------ *)
\* the k-th wb_update_user(1, ...) call of the backlog, as it was queued
BacklogWrite(k) ==
    [operation |-> "update",
     user |-> model_dump(1, IF k % 2 = 1 THEN TestUser ELSE UpdatedUser),
     timestamp |-> k]

DrainInit ==
    /\ backlog \in 0..MaxBacklog
    /\ write_queue = [k \in 1..backlog |-> json_dumps(BacklogWrite(k))]
    /\ wb_cache = IF backlog = 0 THEN Empty
                  ELSE setex(Empty, cache_key(1),
                             json_dumps(BacklogWrite(backlog).user))
    /\ written = IF backlog = 0 THEN Empty
                 ELSE remember(Empty, 1, BacklogWrite(backlog).user)
    /\ write_stats = [cached_writes |-> backlog, db_flushes |-> 0,
                      pending_writes |-> backlog, last_flush |-> FALSE]
    /\ user_id_counter = 0
    /\ users = [i \in Ids |-> SeedRow(i)]
    /\ users_id_seq = Cardinality(Ids)
    /\ flush = [f \in Flushers |-> IdleFlush]
    /\ fails_left = 0
    /\ failed = {}
    /\ applied = {}
    /\ enqueued = 1..backlog
    /\ cache_changes = backlog
    /\ deleted = {}
    /\ ticks = [f \in Flushers |-> 0]
    /\ RaInit
    /\ OtherInit

TotalTicks == ticks["worker"] + ticks["manual"]

\* the calls of _flush_to_database that are running
Running == {f \in Flushers : flush[f].pc # "idle"}

\* a call of _flush_to_database returns and is counted
TickReturn ==
    \E f \in Flushers :
        /\ flush_return(f)
        /\ ticks' = [ticks EXCEPT ![f] = IF @ < MaxTicks THEN @ + 1 ELSE @]
        /\ UNCHANGED <<backlog, ra_vars, other_vars>>

\* the worker wakes up or a client posts /flush, also while the other call
\* of _flush_to_database is running
DrainNext ==
    \/ \E f \in Flushers :
         /\ TotalTicks + Cardinality(Running) < MaxTicks
         /\ flush_start(f)
         /\ WbRest
    \/ FlushLpop
    \/ FlushExecute
    \/ TickReturn

DrainSpec == DrainInit /\ [][DrainNext]_vars

\* what is left of a backlog of n after j full batches
Remaining(n, j) == IF n > j * BATCH_SIZE THEN n - j * BATCH_SIZE ELSE 0

\* ceil(n / d)
CeilDiv(n, d) == (n + d - 1) \div d

\* C4: drain bound. A tick leaves its pop loop only with BATCH_SIZE writes
\* or with the queue empty, so once j calls have returned the queue holds at
\* most max(0, n - j * BATCH_SIZE) of a backlog of n, and exactly that many
\* when no call is running; from ceil(n / BATCH_SIZE) returned calls on the
\* queue is empty and stays empty, and every write has been applied as soon
\* as no call is running, also when the worker tick and a forced flush
\* overlap.
C4_DrainBound ==
    /\ Len(write_queue) <= Remaining(backlog, TotalTicks)
    /\ \A f \in Flushers :
         flush[f].pc \in {"process", "llen"} =>
            Len(flush[f].writes) = BATCH_SIZE \/ write_queue = <<>>
    /\ NoFlushInProgress =>
         /\ Len(write_queue) = Remaining(backlog, TotalTicks)
         /\ applied = 1..(backlog - Len(write_queue))
    /\ TotalTicks >= CeilDiv(backlog, BATCH_SIZE) =>
         /\ write_queue = <<>>
         /\ NoFlushInProgress => applied = 1..backlog

\* a backlog of more than one batch is drained by its second call, a forced
\* flush that ran while the tick of the worker was running: the write
\* executed last is not the one queued last
C4_Witness ==
    /\ backlog = BATCH_SIZE + 1
    /\ ticks = [f \in Flushers |-> 1]
    /\ NoFlushInProgress
    /\ write_queue = <<>>
    /\ applied = 1..backlog
    /\ fetchrow(users, 1) # BacklogWrite(backlog).user

\* C7: forced full drain. Once a forced flush has returned (no failure, no
\* new write) the queue is empty and every queued write has been applied.
C7_ForcedFullDrain ==
    (ticks["manual"] >= 1 /\ NoFlushInProgress) =>
        write_queue = <<>> /\ applied = 1..backlog

(* ------------------------------------------------------------------ *)
(* Ordering scenario (specification section 8): user 7 was updated to  *)
(* age 30 and then to age 31, both updates are queued, and db.execute  *)
(* raises once                                                         *)
(* ------------------------------------------------------------------ *)
ScenarioIds == {2, 7}

ScenarioWrite(k) ==
    [operation |-> "update",
     user |-> model_dump(7, IF k = 1 THEN TestUser ELSE UpdatedUser),
     timestamp |-> k]

ScenarioInit ==
    /\ write_queue = <<json_dumps(ScenarioWrite(1)),
                       json_dumps(ScenarioWrite(2))>>
    /\ wb_cache = setex(Empty, cache_key(7),
                        json_dumps(ScenarioWrite(2).user))
    /\ written = remember(Empty, 7, ScenarioWrite(2).user)
    /\ write_stats = [cached_writes |-> 2, db_flushes |-> 0,
                      pending_writes |-> 2, last_flush |-> FALSE]
    /\ user_id_counter = 0
    /\ users = [i \in ScenarioIds |-> SeedRow(i)]
    /\ users_id_seq = 7
    /\ flush = [f \in Flushers |-> IdleFlush]
    /\ fails_left = 1
    /\ failed = {}
    /\ applied = {}
    /\ enqueued = {1, 2}
    /\ cache_changes = 2
    /\ deleted = {}
    /\ backlog = 2
    /\ ticks = [f \in Flushers |-> 0]
    /\ RaInit
    /\ OtherInit

ScenarioNext ==
    \/ \E id \in ScenarioIds : wb_read_get(id) /\ CallRest
    \/ ReadStep
    \/ \E id \in ScenarioIds : expire(id) /\ WbRest
    \/ FlushStart
    \/ FlushLpop
    \/ FlushExecute
    \/ FlushRaises
    \/ FlushRequeue
    \/ FlushReturn

ScenarioSpec == ScenarioInit /\ [][ScenarioNext]_vars

\* C6: ordering scenario. When the first update (age 30) failed once and
\* the second (age 31) never failed, and both have been applied, the users
\* table holds age 30 for user 7, while the cache entry written by the
\* second update (as long as it has not expired) holds age 31.
C6_OutOfOrder ==
    (applied = {1, 2} /\ failed = {1}) =>
        /\ users[7].age = 30
        /\ 7 \in DOMAIN written =>
             json_loads(wb_cache[cache_key(7)]).age = 31

\* the scenario has run to its end: table at age 30, cache at age 31
C6_Witness ==
    /\ applied = {1, 2}
    /\ failed = {1}
    /\ NoFlushInProgress
    /\ write_queue = <<>>
    /\ users[7].age = 30
    /\ json_loads(wb_cache[cache_key(7)]).age = 31


(* ------------------------------------------------------------------ *)
(* Refresh-ahead specification: the foreground calls of concurrent     *)
(* request handlers, the clock, and the refresh worker running its     *)
(* ticks, a store call at a time and in any interleaving               *)
(* ------------------------------------------------------------------ *)
\* a get_user call in progress gets the reply of its store call
RaReadReplies ==
    \/ \E c \in Callers : ra_track_hincrby(c) /\ RaRest
    \/ \E c \in Callers : ra_track_sadd(c) /\ RaRest
    \/ \E c \in Callers : ra_track_scard(c) /\ RaRest
    \/ \E c \in Callers : ra_read_get(c) /\ RaRest
    \/ \E c \in Callers : ra_read_fetch(c) /\ RaRest
    \/ \E c \in Callers : ra_read_fill(c) /\ RaRest

\* a handler starts one of at most n get_user calls
RaReadStart(n) ==
    /\ refresh_stats.total_reads < n
    /\ \E c \in Callers, id \in Ids : ra_get_user(c, id)
    /\ RaRest

\* the store calls of get_user
RaReadSteps == RaReadStart(MaxReads) \/ RaReadReplies

\* the store calls of create_user
RaCreateSteps ==
    \/ \E c \in Callers, u \in RaInputs : ra_create_user(c, u) /\ RaRest
    \/ \E c \in Callers, u \in RaInputs : ra_create_raises(c, u) /\ RaRest
    \/ \E c \in Callers : ra_create_setex(c) /\ RaRest

\* the store calls of update_user
RaUpdateSteps ==
    \/ \E c \in Callers, id \in Ids, u \in RaInputs :
         ra_update_user(c, id, u) /\ RaRest
    \/ \E c \in Callers : ra_update_setex(c) /\ RaRest

\* the store calls of delete_user
RaDeleteSteps ==
    \/ \E c \in Callers, id \in Ids : ra_delete_user(c, id) /\ RaRest
    \/ \E c \in Callers : ra_delete_cache(c) /\ RaRest
    \/ \E c \in Callers : ra_delete_srem(c) /\ RaRest
    \/ \E c \in Callers : ra_delete_hdel(c) /\ RaRest

\* the worker wakes up while the refreshes of the behaviour are not used up
RefreshStart ==
    /\ refresh_stats.proactive_refreshes < MaxRefreshes
    /\ refresh_start
    /\ RaRest

\* the clock and the store calls of the refresh worker
RefreshWorker ==
    \/ ra_advance /\ RaRest
    \/ RefreshStart
    \/ refresh_smembers /\ RaRest
    \/ refresh_ttl /\ RaRest
    \/ refresh_srem /\ RaRest
    \/ refresh_fetch /\ RaRest
    \/ refresh_fetch_raises /\ RaRest
    \/ refresh_setex /\ RaRest
    \/ refresh_scard /\ RaRest

RefreshNext ==
    \/ RaReadStart(MaxRefreshReads)
    \/ RaReadReplies
    \/ RaCreateSteps
    \/ RaUpdateSteps
    \/ RaDeleteSteps
    \/ RefreshWorker

RefreshSpec == RowInit /\ [][RefreshNext]_vars

(* ------------------------------------------------------------------ *)
(* Claims about the refresh-ahead scheduler                            *)
(* ------------------------------------------------------------------ *)
\* C8: refresh tick post-condition.  When a refresh tick has gone through
\* its snapshot of the Hot Set, every key it found with a remaining lifetime
\* below CACHE_TTL * (1 - REFRESH_THRESHOLD) has been rewritten with the
\* lifetime CACHE_TTL or is no longer in the Hot Set, also when the lookup in
\* the durable store returned no row or raised.
C8_TickPostcondition ==
    refresh.pc = "scard" =>
        \A k \in scan_low :
            \/ k \in DOMAIN rewritten /\ rewritten[k] = CACHE_TTL
            \/ k \notin hot_items

WtRest == UNCHANGED <<wb_vars, ra_vars, run_vars, task_vars>>

WtNext ==
    \/ \E c \in Callers, id \in Ids :
         wt_get_user(c, id) /\ WtRest
    \/ \E c \in Callers :
         wt_get_fetch(c) /\ WtRest
    \/ \E c \in Callers :
         wt_get_fill(c) /\ WtRest
    \/ \E c \in Callers, u \in WtInputs :
         wt_create_user(c, u) /\ WtRest
    \/ \E c \in Callers, u \in WtInputs :
         wt_create_raises(c, u) /\ WtRest
    \/ \E c \in Callers :
         wt_create_setex(c) /\ WtRest
    \/ \E c \in Callers :
         wt_create_setex_raises(c) /\ WtRest
    \/ \E c \in Callers, id \in Ids, u \in WtInputs :
         wt_update_user(c, id, u) /\ WtRest
    \/ \E c \in Callers, id \in Ids, u \in WtInputs :
         wt_update_raises(c, id, u) /\ WtRest
    \/ \E c \in Callers :
         wt_update_setex(c) /\ WtRest
    \/ \E c \in Callers :
         wt_update_setex_raises(c) /\ WtRest
    \/ \E c \in Callers :
         wt_update_invalidate(c) /\ WtRest
    \/ \E c \in Callers :
         wt_update_invalidate_raises(c) /\ WtRest
    \/ \E c \in Callers, id \in Ids :
         wt_delete_user(c, id) /\ WtRest
    \/ \E c \in Callers, id \in Ids :
         wt_delete_raises(c, id) /\ WtRest
    \/ \E c \in Callers :
         wt_delete_cache(c) /\ WtRest
    \/ \E c \in Callers :
         wt_delete_cache_raises(c) /\ WtRest
    \/ \E id \in Ids :
         wt_expire(id) /\ WtRest

WtSpec == RowInit /\ [][WtNext]_vars

(* ------------------------------------------------------------------ *)
(* Claims on the write-through specification                           *)
(* ------------------------------------------------------------------ *)
\* C12: write-through durable failure.  Every step of a create, update or
\* delete call whose durable operation has raised, the raising step
\* included, leaves the cache exactly as it was: no entry is added, changed
\* or removed.
C12_DurableFailure ==
    [][\A c \in Callers :
         (wt_calls'[c] # wt_calls[c] /\ wt_calls'[c].err = "db")
             => wt_cache' = wt_cache]_vars

\* C13: write-through cache failure.  When a create, update or delete call
\* returns after its durable operation succeeded and its cache operation
\* raised, the cache holds no entry for the key that differs from the
\* durable store.
C13_CacheFailure ==
    [][\A c \in Callers :
         (/\ wt_calls[c].op # "idle"
          /\ wt_calls'[c].op = "idle"
          /\ wt_calls'[c].err = "cache")
             => LET id == wt_calls'[c].id
                IN  cache_key(id) \in DOMAIN wt_cache' =>
                      json_loads(wt_cache'[cache_key(id)])
                          = fetchrow(users', id)]_vars

\* C14: write-through strong consistency.  With no store failure so far,
\* whenever no call is in progress every cache entry that is present equals
\* the durable row of the same id.
C14_StrongConsistency ==
    (WtBusy = {} /\ ~wt_raised) =>
        \A id \in Ids :
            cache_key(id) \in DOMAIN wt_cache =>
                json_loads(wt_cache[cache_key(id)]) = fetchrow(users, id)

(* ------------------------------------------------------------------ *)
(* Crash specification: the write-behind process is killed and started *)
(* again.  Redis and Postgres keep their data; the process loses the   *)
(* batch a running _flush_to_database holds and its write_stats.       *)
(* Timestamps are taken from write_stats, so the write-behind calls    *)
(* are made before the first kill.  The database does not fail in      *)
(* passing here: db.execute raises only for a unique violation.        *)
(* ------------------------------------------------------------------ *)
\* kills of the process in one behaviour
MaxCrashes == 1

\* the timestamps of the writes flush f has popped and not yet executed
in_memory(f) ==
    IF flush[f].pc = "pop"
    THEN {flush[f].writes[n].timestamp : n \in 1..Len(flush[f].writes)}
    ELSE IF flush[f].pc \in {"process", "requeue"}
    THEN {flush[f].writes[n].timestamp :
            n \in flush[f].i..Len(flush[f].writes)}
    ELSE {}

\* a restart that came up with an empty list, as a queue kept in the memory
\* of the process would
after_crash_in_memory(q) == <<>>

\* the redis list "write_queue" after the process was killed and restarted
after_crash(q) == q

\* the process dies and lifespan starts it again: the flushes and the
\* request handlers that were running are gone
crash ==
    /\ crashes < MaxCrashes
    /\ crashes' = crashes + 1
    /\ lost' = lost \cup UNION {in_memory(f) : f \in Flushers}
    /\ flush' = [f \in Flushers |-> IdleFlush]
    /\ wb_calls' = [c \in Callers |-> IdleCall]
    /\ wb_read' = IdleRead
    /\ write_stats' = [cached_writes |-> 0, db_flushes |-> 0,
                       pending_writes |-> 0, last_flush |-> FALSE]
    /\ write_queue' = after_crash(write_queue)
    /\ UNCHANGED <<wb_cache, user_id_counter, users, users_id_seq,
                   fails_left, failed, applied, enqueued, written, deleted>>

\* db.execute raises for a statement that violates a constraint
CrashFlushRaises ==
    \E f \in Flushers :
        /\ flush[f].pc = "process"
        /\ db_raises(users, current_write(f))
        /\ flush_raises(f)
        /\ UNCHANGED <<backlog, ticks, ra_vars, other_vars>>

CrashNext ==
    \/ crashes = 0 /\ CreateUser
    \/ crashes = 0 /\ UpdateUser
    \/ crashes = 0 /\ DeleteUser
    \/ CallStep
    \/ FlushStart
    \/ FlushLpop
    \/ FlushExecute
    \/ CrashFlushRaises
    \/ FlushRequeue
    \/ FlushReturn
    \/ crash
         /\ UNCHANGED <<backlog, ticks, ra_vars, wt_vars, since_tick, expired,
                        cache_changes, task_vars>>

\* the event loop of the running process keeps running the flush worker
CrashSpec ==
    /\ Init
    /\ [][CrashNext]_vars
    /\ WF_vars(FlushStart)
    /\ WF_vars(FlushLpop)
    /\ WF_vars(FlushExecute \/ CrashFlushRaises)
    /\ WF_vars(FlushRequeue)
    /\ WF_vars(FlushReturn)

\* C11: enqueue durability across a crash.  A kill of the process leaves the
\* queue as it was, so every mutation that was enqueued and not yet popped is
\* still queued after the restart; and a mutation that is queued after a
\* restart is eventually applied, unless its execution keeps failing or a
\* later kill hits the process while a flush holds the mutation in memory.
C11_CrashDurable ==
    /\ [][crashes' # crashes => write_queue' = write_queue]_vars
    /\ \A t \in 1..MaxWrites :
         \/ []<><<FailsAt(t)>>_vars
         \/ (t \in QueuedTimestamps /\ crashes >= 1)
               ~> (t \in applied \/ t \in lost)

\* after a kill that found a write in the queue and none in a flush's
\* memory, the restarted process has applied a write
C11_Witness ==
    /\ crashes = 1
    /\ lost = {}
    /\ write_stats.db_flushes >= 1
    /\ write_queue = <<>>

(* ------------------------------------------------------------------ *)
(* Timed refresh-ahead specification: the refresh worker sleeps        *)
(* REFRESH_INTERVAL seconds between its ticks, a tick takes no time,   *)
(* no lookup of a tick raises, and the clock stops once the ticks of   *)
(* the behaviour are used up; users are read, updated and deleted, a   *)
(* store call at a time, and none is created                           *)
(* ------------------------------------------------------------------ *)
REFRESH_INTERVAL == 10

\* the step of the clock: two steps to a tick
Quantum == REFRESH_INTERVAL \div 2

\* the hot keys of existing users whose entry runs out in the next d seconds
running_out(d) ==
    {k \in hot_items \cap DOMAIN ra_cache :
        /\ k \notin DOMAIN advance(ra_cache, d)
        /\ key_user_id(k) \in DOMAIN users}

\* time passes while the worker is in asyncio.sleep(REFRESH_INTERVAL)
timed_advance ==
    /\ refresh.pc = "idle"
    /\ refresh_stats.proactive_refreshes < MaxRefreshes
    /\ since_tick < REFRESH_INTERVAL
    /\ since_tick' = since_tick + Quantum
    /\ ra_cache' = advance(ra_cache, Quantum)
    /\ expired' = expired \cup running_out(Quantum)
    /\ UNCHANGED <<users, users_id_seq, access_counts, hot_items,
                   refresh_stats, refresh, ra_calls, ra_fails_left, scan_low,
                   lookup_failed, rewritten>>

\* the sleep is over: the worker calls _refresh_hot_items and sleeps again
timed_start ==
    /\ since_tick = REFRESH_INTERVAL
    /\ refresh_stats.proactive_refreshes < MaxRefreshes
    /\ since_tick' = 0
    /\ refresh_start
    /\ UNCHANGED expired

TimedNext ==
    \/ RaReadStart(MaxRefreshReads)
    \/ RaReadReplies
    \/ RaUpdateSteps
    \/ RaDeleteSteps
    \/ timed_advance /\ UNCHANGED <<wb_vars, wt_vars, crashes, lost, wb_read, wb_calls,
                      cache_changes, task_vars>>
    \/ timed_start /\ UNCHANGED <<wb_vars, wt_vars, crashes, lost, wb_read, wb_calls,
                      cache_changes, task_vars>>
    \/ refresh_smembers /\ RaRest
    \/ refresh_ttl /\ RaRest
    \/ refresh_srem /\ RaRest
    \/ refresh_fetch /\ RaRest
    \/ refresh_setex /\ RaRest
    \/ refresh_scard /\ RaRest

TimedSpec == RowInit /\ [][TimedNext]_vars

\* C15: refresh-ahead keeps hot data cached.  With a refresh tick every
\* REFRESH_INTERVAL seconds and every reload succeeding, the cache entry of
\* a hot key whose user exists never runs out, so no read of it is a miss.
C15_HotStaysCached == expired = {}

(* ------------------------------------------------------------------ *)
(* Further claims about the write-behind flush                         *)
(* ------------------------------------------------------------------ *)
\* C16: durability lag bound.  With no failure, once the first flush tick
\* after the enqueues has returned, every mutation of the backlog has been
\* applied, whatever the length of the backlog.
C16_LagBound == TotalTicks >= 1 => (1..backlog) \subseteq applied

\* a step of flush f in which db.execute raised for the current write
Raised(f) ==
    /\ flush[f].pc = "process"
    /\ flush'[f] # flush[f]
    /\ applied' = applied

\* the step of flush f that leaves the except branch
Requeued(f) == flush[f].pc = "requeue" /\ flush'[f] # flush[f]

\* C19: tail requeue with batch continuation.  When db.execute raises for a
\* write of the batch the tick enters its except branch with that write, and
\* the step that leaves the branch leaves the queue as it was before with
\* that same write appended at its tail (behind the writes that were
\* enqueued in between); the tick moves on to the next write of the batch
\* (or to its end after the last one), and when the tick reaches its end
\* every write of the batch has been executed or re-queued.
C19_TailRequeue ==
    /\ [][\A f \in Flushers :
            /\ Raised(f) => flush'[f] = [flush[f] EXCEPT !.pc = "requeue"]
            /\ Requeued(f) =>
                 /\ write_queue'
                      = Append(write_queue,
                               json_dumps(flush[f].writes[flush[f].i]))
                 /\ flush'[f].writes = flush[f].writes
                 /\ IF flush[f].i < Len(flush[f].writes)
                    THEN /\ flush'[f].pc = "process"
                         /\ flush'[f].i = flush[f].i + 1
                    ELSE flush'[f].pc = "llen"]_vars
    /\ [](\A f \in Flushers :
            flush[f].pc = "llen" =>
              \A n \in 1..Len(flush[f].writes) :
                 flush[f].writes[n].timestamp \in applied \cup failed)

\* the first write failed after the second was enqueued and is queued
\* behind it
C19_Witness ==
    /\ Len(write_queue) = 2
    /\ json_loads(write_queue[1]).timestamp = 2
    /\ json_loads(write_queue[2]).timestamp = 1
    /\ failed = {1}
    /\ applied = {}

(* ------------------------------------------------------------------ *)
(* Further claims about the refresh-ahead cache                        *)
(* ------------------------------------------------------------------ *)
\* the keys a step takes out of the Hot Set
Demoted == hot_items \ hot_items'

\* the keys whose access count a step lowers or deletes
Lowered ==
    {k \in DOMAIN access_counts :
        access_count(access_counts', k) < access_counts[k]}

\* C17: one-way promotion.  No step lowers or resets an access count, and a
\* key leaves the Hot Set only in the demoting step of a refresh tick, for
\* the key of that step, whose cache entry has vanished.
C17_OneWayPromotion ==
    [][/\ Lowered = {}
       /\ \A k \in Demoted :
            /\ refresh.pc = "srem"
            /\ refresh' # refresh
            /\ k = refresh.key
            /\ k \notin DOMAIN ra_cache]_vars

\* what RefreshAheadCache.get_user(user_id) returns in the current state
ra_get_user_ret(c, tbl, user_id) ==
    IF cache_key(user_id) \in DOMAIN c
    THEN json_loads(c[cache_key(user_id)].value)
    ELSE fetchrow(tbl, user_id)

\* C18: read contract.  A read of id is counted in total_reads, then counts
\* one access of its key, touching neither cache nor table, and asks the
\* cache only after that.
\* On a hit it counts a hit and returns with cache and table as they were,
\* without a lookup in the table.  On a miss it counts a miss and looks the
\* row up: without a row it returns and has created no cache entry, with a
\* row it writes that row to the cache with the lifetime CACHE_TTL and
\* returns, so that a read repeated at once returns the same row from the
\* cache.  No step of a read changes the table.  Every read that has been
\* counted has asked the cache or is still on its way to it, and a read
\* that is about to fill the cache holds a row.
C18_ReadContract ==
    /\ [](refresh_stats.total_reads =
            refresh_stats.cache_hits + refresh_stats.cache_misses
            + Cardinality({c \in Callers :
                             ra_calls[c].pc \in
                               {"hincrby", "sadd", "scard", "get"}}))
    /\ [](\A c \in Callers :
            ra_calls[c].pc = "fill" => ra_calls[c].row # NoUser)
    /\ [][\A c \in Callers :
            LET r == ra_calls[c]
                k == cache_key(r.id)
                hit == k \in DOMAIN ra_cache
                row == fetchrow(users, r.id)
            IN  /\ (r.pc = "idle" /\ ra_calls'[c].op = "get") =>
                     /\ refresh_stats'.total_reads
                          = refresh_stats.total_reads + 1
                     /\ ra_calls'[c].pc = "hincrby"
                     /\ access_counts' = access_counts
                     /\ ra_cache' = ra_cache
                     /\ users' = users
                /\ (r.pc = "hincrby" /\ ra_calls'[c] # r) =>
                     /\ access_count(access_counts', k)
                          = access_count(access_counts, k) + 1
                     /\ ra_calls'[c].pc \in {"sadd", "get"}
                     /\ refresh_stats' = refresh_stats
                /\ (r.op = "get" /\ ra_calls'[c] # r) =>
                     /\ users' = users
                     /\ r.pc # "hincrby" => access_counts' = access_counts
                     /\ r.pc # "fill" => ra_cache' = ra_cache
                     /\ r.pc # "get" =>
                          /\ refresh_stats'.cache_hits = refresh_stats.cache_hits
                          /\ refresh_stats'.cache_misses
                               = refresh_stats.cache_misses
                /\ (r.op = "get" /\ r.pc = "get" /\ ra_calls'[c] # r) =>
                     /\ refresh_stats'.cache_hits
                          = refresh_stats.cache_hits + (IF hit THEN 1 ELSE 0)
                     /\ refresh_stats'.cache_misses
                          = refresh_stats.cache_misses + (IF hit THEN 0 ELSE 1)
                     /\ hit => ra_calls'[c] = IdleRa
                     /\ ~hit => ra_calls'[c].pc = "fetch"
                /\ (r.pc = "fetch" /\ ra_calls'[c] # r) =>
                     /\ row = NoUser => ra_calls'[c] = IdleRa
                     /\ row # NoUser =>
                          /\ ra_calls'[c].pc = "fill"
                          /\ ra_calls'[c].row = row
                /\ (r.pc = "fill" /\ ra_calls'[c] # r) =>
                     /\ ra_calls'[c] = IdleRa
                     /\ DOMAIN ra_cache' = DOMAIN ra_cache \cup {k}
                     /\ ra_cache'[k] = [value |-> json_dumps(r.row),
                                        ttl |-> CACHE_TTL]
                     /\ \A j \in DOMAIN ra_cache \ {k} :
                           ra_cache'[j] = ra_cache[j]
                     /\ ra_get_user_ret(ra_cache', users', r.id) = r.row]_vars

\* a miss has filled the cache with the row at the full lifetime, and the
\* read repeated at once was a hit
C18_Witness ==
    /\ NoRaCall
    /\ refresh_stats.total_reads = 2
    /\ refresh_stats.cache_misses = 1
    /\ refresh_stats.cache_hits = 1
    /\ access_count(access_counts, cache_key(1)) = 2
    /\ cache_key(1) \in DOMAIN ra_cache
    /\ ra_cache[cache_key(1)].ttl = CACHE_TTL
    /\ json_loads(ra_cache[cache_key(1)].value) = fetchrow(users, 1)

(* ------------------------------------------------------------------ *)
(* Claims about concurrent and ending flushes                          *)
(* ------------------------------------------------------------------ *)
\* the service with its /flush endpoint: force_flush calls
\* _flush_to_database whenever a client asks, also while a tick of the
\* worker is running; db.execute raises only for a statement that violates
\* a constraint
ForceNext ==
    \/ CreateUser
    \/ UpdateUser
    \/ DeleteUser
    \/ CallStep
    \/ FlushStart
    \/ flush_start("manual")
         /\ UNCHANGED <<backlog, ticks, ra_vars, other_vars>>
    \/ FlushLpop
    \/ FlushExecute
    \/ CrashFlushRaises
    \/ FlushRequeue
    \/ FlushReturn

ForceSpec == Init /\ [][ForceNext]_vars

\* how many times the timestamp t stands in the sequence of timestamps ts
RECURSIVE Times(_, _)
Times(ts, t) ==
    IF ts = <<>> THEN 0
    ELSE (IF Head(ts) = t THEN 1 ELSE 0) + Times(Tail(ts), t)

\* the timestamps of the queue, in queue order
queued_seq == [n \in 1..Len(write_queue) |-> json_loads(write_queue[n]).timestamp]

\* the timestamps flush f holds and has not dealt with yet, in batch order
held_seq(f) ==
    LET first == IF flush[f].pc = "pop" THEN 1
                 ELSE IF flush[f].pc \in {"process", "requeue"}
                 THEN flush[f].i
                 ELSE Len(flush[f].writes) + 1
    IN  [n \in 1..(Len(flush[f].writes) + 1 - first) |->
            flush[f].writes[first + n - 1].timestamp]

\* the places a mutation that was enqueued stands in: the queue and the
\* batches of the worker tick and of the manual flush
Places(t) ==
    Times(queued_seq, t) + Times(held_seq("worker"), t)
        + Times(held_seq("manual"), t)

\* C21: consumed exactly once on success.  db.execute has succeeded once for
\* every applied mutation and never twice; an applied mutation stands neither
\* in the queue nor in a batch; a mutation not yet applied stands in exactly
\* one place, so the worker tick and a manual flush running together never
\* hold the same mutation; and once the queue is empty and no flush runs
\* every enqueued mutation has been applied exactly once.
C21_ConsumedOnce ==
    /\ write_stats.db_flushes = Cardinality(applied)
    /\ \A t \in enqueued :
         Places(t) = IF t \in applied THEN 0 ELSE 1
    /\ (write_queue = <<>> /\ NoFlushInProgress) =>
         applied = enqueued

\* the worker tick and a manual flush each hold a mutation at the same time
\* and one of the two mutations has been applied
C21_Witness ==
    /\ Len(flush["worker"].writes) = 1
    /\ Len(flush["manual"].writes) = 1
    /\ write_stats.db_flushes = 1
    /\ write_stats.cached_writes = 2

(* ------------------------------------------------------------------ *)
(* Claims about the steps of a refresh tick                            *)
(* ------------------------------------------------------------------ *)
\* the refresh tick takes a step
TickStep == refresh' # refresh

\* a step that leaves the stores and the counters of refresh-ahead alone
RaStoresUnchanged ==
    /\ ra_cache' = ra_cache
    /\ users' = users
    /\ access_counts' = access_counts
    /\ refresh_stats' = refresh_stats

\* C27: Demoting.  When the tick asks for the lifetime of a hot key that has
\* no cache entry, also one that lost it after the Hot Set was enumerated,
\* it goes to the srem of that key without touching anything; the srem takes
\* the key out of the Hot Set, reads no row, writes no cache entry, leaves
\* the refresh counter as it is and the tick goes on with the next key.
C27_Demoting ==
    [][/\ (TickStep /\ refresh.pc = "ttl"
              /\ refresh.key \notin DOMAIN ra_cache) =>
            /\ refresh' = [refresh EXCEPT !.pc = "srem"]
            /\ hot_items' = hot_items
            /\ RaStoresUnchanged
       /\ (TickStep /\ refresh.pc = "srem") =>
            /\ hot_items' = hot_items \ {refresh.key}
            /\ RaStoresUnchanged
            /\ refresh' \in next_item(refresh.items)
            /\ refresh'.pc \in {"ttl", "scard"}
            /\ refresh'.row = NoUser]_vars

\* a tick has demoted the promoted key of a user that still exists and is
\* at its next key or at its end, without having counted a refresh
C27_Witness ==
    /\ refresh.pc \in {"ttl", "scard"}
    /\ refresh_stats.proactive_refreshes = 0
    /\ NoRaCall
    /\ \E id \in DOMAIN users :
         /\ access_count(access_counts, cache_key(id)) >= ACCESS_THRESHOLD
         /\ cache_key(id) \notin hot_items
         /\ cache_key(id) \notin refresh.items
         /\ cache_key(id) # refresh.key

\* C28: refresh counter accuracy.  proactive_refreshes changes only by one,
\* and only in the step of a tick that overwrites the cache entry of the
\* key with the row of the durable store at the lifetime CACHE_TTL.
C28_CounterAccuracy ==
    [][refresh_stats'.proactive_refreshes # refresh_stats.proactive_refreshes =>
         /\ refresh_stats'.proactive_refreshes
              = refresh_stats.proactive_refreshes + 1
         /\ refresh.pc = "setex"
         /\ refresh.key \in DOMAIN ra_cache'
         /\ ra_cache'[refresh.key].ttl = CACHE_TTL
         /\ json_loads(ra_cache'[refresh.key].value)
              = fetchrow(users, key_user_id(refresh.key))]_vars

\* C29: Skipping.  When the tick asks for the lifetime of a hot key whose
\* entry has at least CACHE_TTL * (1 - REFRESH_THRESHOLD) seconds left, the
\* step changes no cache entry and no lifetime, no Hot Set membership, no
\* access count and no counter, reads no row, and the tick goes on with the
\* next key; the two comparisons of the tick skip a lifetime exactly when
\* it is at or above that bound.
C29_Skipping ==
    /\ [][(TickStep /\ refresh.pc = "ttl"
              /\ refresh.key \in DOMAIN ra_cache
              /\ 100 * ra_cache[refresh.key].ttl
                   >= CACHE_TTL * (100 - REFRESH_THRESHOLD)) =>
            /\ RaStoresUnchanged
            /\ hot_items' = hot_items
            /\ refresh' \in next_item(refresh.items)
            /\ refresh'.pc \in {"ttl", "scard"}
            /\ refresh'.row = NoUser]_vars
    /\ [](\A ttl \in 1..CACHE_TTL :
            check_ttl(ttl) = "skip" <=>
               100 * ttl >= CACHE_TTL * (100 - REFRESH_THRESHOLD))

\* a tick has gone through a Hot Set whose only key has an entry that is
\* 25 seconds old, and has found nothing to reload
C29_Witness ==
    /\ refresh.pc = "scard"
    /\ hot_items = {cache_key(1)}
    /\ redis_ttl(ra_cache, cache_key(1)) = CACHE_TTL - TimeStep
    /\ scan_low = {}
    /\ refresh_stats.cache_misses = 1
    /\ refresh_stats.proactive_refreshes = 0

(* ------------------------------------------------------------------ *)
(* Claims about the statements a flush executes                        *)
(* ------------------------------------------------------------------ *)
\* flush f is about to execute an UPDATE or DELETE for an id without a row
AbsentIdentity(f) ==
    /\ flush[f].pc = "process"
    /\ current_write(f).operation \in {"update", "delete"}
    /\ current_write(f).user.id \notin DOMAIN users

\* C30: Update and Delete of an absent identity are no-ops.  When a flush
\* deals with a queued update or delete whose id has no row, the table and
\* its id sequence stay as they are, the write is not re-queued, it counts
\* as flushed and applied, and the flush moves on to the next write of its
\* batch (or to its end after the last one).
C30_AbsentNoOp ==
    [][\A f \in Flushers :
         (AbsentIdentity(f) /\ flush'[f] # flush[f]) =>
           /\ users' = users
           /\ users_id_seq' = users_id_seq
           /\ write_queue' = write_queue
           /\ write_stats'.db_flushes = write_stats.db_flushes + 1
           /\ applied' = applied \cup {current_write(f).timestamp}
           /\ failed' = failed
           /\ flush'[f].writes = flush[f].writes
           /\ IF flush[f].i < Len(flush[f].writes)
              THEN flush'[f].pc = "process" /\ flush'[f].i = flush[f].i + 1
              ELSE flush'[f].pc = "llen"]_vars

\* one batch held the delete of a user and then an update or a delete of
\* the same user; both have been executed and neither was re-queued
C30_Witness ==
    \E f \in Flushers :
        /\ flush[f].pc = "llen"
        /\ Len(flush[f].writes) = 2
        /\ flush[f].writes[1].operation = "delete"
        /\ flush[f].writes[2].operation \in {"update", "delete"}
        /\ flush[f].writes[2].user.id = flush[f].writes[1].user.id
        /\ applied = {1, 2}
        /\ write_stats.db_flushes = 2
        /\ write_queue = <<>>
        /\ failed = {}

\* C24: single in-flight refresh tick.  A tick starts only while no tick is
\* in progress, and the tick in progress ends only from its last call, the
\* scard after the whole snapshot has been gone through, or from the
\* smembers that found no hot key, however much time its steps take.
C24_SingleTick ==
    [][/\ (TickStep /\ refresh'.pc = "smembers") => refresh.pc = "idle"
       /\ (TickStep /\ refresh'.pc = "idle") =>
            \/ refresh.pc = "scard" /\ refresh.items = {}
            \/ refresh.pc = "smembers" /\ hot_items = {}]_vars

\* a tick is still in progress TimeStep seconds, more than REFRESH_INTERVAL,
\* after it rewrote the entry of a key
C24_Witness ==
    /\ refresh.pc # "idle"
    /\ TimeStep >= REFRESH_INTERVAL
    /\ \E k \in DOMAIN rewritten :
         /\ rewritten[k] = CACHE_TTL
         /\ redis_ttl(ra_cache, k) = CACHE_TTL - TimeStep

(* ------------------------------------------------------------------ *)
(* Shutdown specification: one of the two services runs (write-behind  *)
(* takes updates of user 1, refresh-ahead has two hot keys), its       *)
(* worker ticks, store calls of a tick may raise, and lifespan shuts   *)
(* the service down: stop_*_worker cancels the task and awaits it.     *)
(* CancelledError is a BaseException, so "except Exception" does not    *)
(* catch it: thrown into the task at the await it is suspended at, it  *)
(* leaves the tick and reaches "except asyncio.CancelledError: break"  *)
(* ------------------------------------------------------------------ *)
\* a worker loop whose handler logs the cancellation and goes on
on_cancel_swallowed == "running"

\* the task after CancelledError reached the worker loop: break
on_cancel == "done"

\* a worker loop without "except Exception": the error ends the task
on_error_exit == "done"

\* the task after an error escaped a tick: "except Exception" logs it and
\* the loop goes back to its sleep
on_error == "running"

\* the count of logged errors after one more "except Exception" of a
\* worker loop
logged(n) == IF n < MaxErrors THEN n + 1 ELSE n

\* lifespan after yield: stop_flush_worker calls flush_task.cancel() and
\* awaits the task; the server has finished its requests before
wb_stop_cancel ==
    /\ lifespan.wb = "serving"
    /\ flush["manual"].pc = "idle"
    /\ \A c \in DOMAIN wb_calls : wb_calls[c].pc = "idle"
    /\ flush_task = "running"
    /\ flush_task' = "cancelling"
    /\ lifespan' = [lifespan EXCEPT !.wb = "stopping"]
    /\ UNCHANGED <<db_vars, wb_vars, refresh_task, worker_errors>>

\* CancelledError is thrown into the flush task: the sleep or the tick is
\* left at once and the writes the tick held are gone with its frame.  The
\* store call the tick was suspended at may already have been carried out
\* by the store: an lpop whose reply nobody reads, a statement whose
\* db_flushes += 1 never runs, an rpush of the except branch
flush_cancelled ==
    /\ flush_task = "cancelling"
    /\ flush_task' = on_cancel
    /\ flush' = [flush EXCEPT !["worker"] = IdleFlush]
    /\ \/ UNCHANGED <<write_queue, users, users_id_seq, applied, enqueued>>
       \/ /\ flush["worker"].pc = "pop"
          /\ write_queue # <<>>
          /\ write_queue' = Tail(write_queue)
          /\ UNCHANGED <<users, users_id_seq, applied, enqueued>>
       \/ /\ flush["worker"].pc = "process"
          /\ ~db_raises(users, current_write("worker"))
          /\ LET db == db_execute(users, users_id_seq, current_write("worker"))
             IN  /\ users' = db.tbl
                 /\ users_id_seq' = db.seq
          /\ applied' = applied \cup {current_write("worker").timestamp}
          /\ UNCHANGED <<write_queue, enqueued>>
       \/ /\ flush["worker"].pc = "requeue"
          /\ write_queue' = requeue(write_queue, current_write("worker"))
          /\ UNCHANGED <<users, users_id_seq, applied, enqueued>>
    /\ UNCHANGED <<wb_cache, user_id_counter, write_stats, fails_left,
                   failed, written, deleted, backlog, ticks, refresh_task,
                   lifespan, worker_errors>>

\* "await self.flush_task" returns, stop_flush_worker returns and lifespan
\* calls _flush_to_database once
wb_stop_return ==
    /\ lifespan.wb = "stopping"
    /\ flush_task = "done"
    /\ lifespan' = [lifespan EXCEPT !.wb = "flushing"]
    /\ flush_start("manual")
    /\ UNCHANGED <<backlog, ticks, flush_task, refresh_task, worker_errors>>

\* the last _flush_to_database has returned and db_pool.close() returns
wb_close_pool ==
    /\ lifespan.wb = "flushing"
    /\ flush["manual"].pc = "idle"
    /\ lifespan' = [lifespan EXCEPT !.wb = "closing_redis"]
    /\ UNCHANGED <<db_vars, wb_vars, flush_task, refresh_task, worker_errors>>

\* redis_client.close() returns and lifespan ends
wb_close_redis ==
    /\ lifespan.wb = "closing_redis"
    /\ lifespan' = [lifespan EXCEPT !.wb = "closed"]
    /\ UNCHANGED <<db_vars, wb_vars, flush_task, refresh_task, worker_errors>>

\* the flush record after an exception left _flush_to_database: the frame
\* with its writes is gone
flush_raised(f) == [flush EXCEPT ![f] = IdleFlush]

\* where an exception that leaves the call f of _flush_to_database ends:
\* in the worker "except Exception" logs it; in lifespan nothing catches
\* it, so it leaves lifespan before the pool and redis are closed
flush_error(f) ==
    /\ flush_task' = IF f = "worker" THEN on_error ELSE flush_task
    /\ worker_errors' = IF f = "worker"
                        THEN [worker_errors EXCEPT !.wb = logged(@)]
                        ELSE worker_errors
    /\ lifespan' = IF f = "manual" /\ lifespan.wb = "flushing"
                   THEN [lifespan EXCEPT !.wb = "raised"]
                   ELSE lifespan

\* redis.lpop or redis.llen raises: the exception leaves the call
flush_redis_raises(f) ==
    /\ flush[f].pc \in {"pop", "llen"}
    /\ flush' = flush_raised(f)
    /\ flush_error(f)
    /\ UNCHANGED <<wb_cache, write_queue, user_id_counter, users,
                   users_id_seq, write_stats, fails_left, failed, applied, enqueued,
                   written, deleted, backlog, ticks, refresh_task>>

\* db.execute has raised and the redis.rpush of the except branch raises
\* too: the second exception leaves the for loop and the call
flush_rpush_raises(f) ==
    /\ flush[f].pc = "requeue"
    /\ flush' = flush_raised(f)
    /\ flush_error(f)
    /\ UNCHANGED <<wb_cache, write_queue, user_id_counter, users,
                   users_id_seq, write_stats, fails_left, failed, applied, enqueued,
                   written, deleted, backlog, ticks, refresh_task>>

\* lifespan after yield: stop_refresh_worker calls refresh_task.cancel()
\* and awaits the task
ra_stop_cancel ==
    /\ lifespan.ra = "serving"
    /\ refresh_task = "running"
    /\ refresh_task' = "cancelling"
    /\ lifespan' = [lifespan EXCEPT !.ra = "stopping"]
    /\ UNCHANGED <<db_vars, ra_vars, flush_task, worker_errors>>

\* CancelledError is thrown into the refresh task: the sleep or the tick is
\* left at once.  The store call the tick was suspended at may already have
\* been carried out by the store: an srem, or the setex of _refresh_user,
\* whose proactive_refreshes += 1 never runs
refresh_cancelled ==
    /\ refresh_task = "cancelling"
    /\ refresh_task' = on_cancel
    /\ refresh' = IdleRefresh
    /\ \/ UNCHANGED <<ra_cache, hot_items, rewritten>>
       \/ /\ refresh.pc = "srem"
          /\ hot_items' = hot_items \ {refresh.key}
          /\ UNCHANGED <<ra_cache, rewritten>>
       \/ /\ refresh.pc = "setex"
          /\ ra_cache' = ra_setex(ra_cache, refresh.key, refresh_lifetime,
                                  json_dumps(refresh.row))
          /\ rewritten' = remember(rewritten, refresh.key,
                                   ra_cache'[refresh.key].ttl)
          /\ UNCHANGED hot_items
    /\ UNCHANGED <<users, users_id_seq, access_counts, refresh_stats,
                   ra_calls, ra_fails_left, scan_low, lookup_failed,
                   flush_task, lifespan, worker_errors>>

\* "await self.refresh_task" returns and stop_refresh_worker returns
ra_stop_return ==
    /\ lifespan.ra = "stopping"
    /\ refresh_task = "done"
    /\ lifespan' = [lifespan EXCEPT !.ra = "closing_pool"]
    /\ UNCHANGED <<db_vars, ra_vars, flush_task, refresh_task, worker_errors>>

\* db_pool.close() returns
ra_close_pool ==
    /\ lifespan.ra = "closing_pool"
    /\ lifespan' = [lifespan EXCEPT !.ra = "closing_redis"]
    /\ UNCHANGED <<db_vars, ra_vars, flush_task, refresh_task, worker_errors>>

\* redis_client.close() returns and lifespan ends
ra_close_redis ==
    /\ lifespan.ra = "closing_redis"
    /\ lifespan' = [lifespan EXCEPT !.ra = "closed"]
    /\ UNCHANGED <<db_vars, ra_vars, flush_task, refresh_task, worker_errors>>

\* a scan without the try/except around a key: the error leaves the tick
refresh_key_aborts ==
    /\ refresh.pc \in {"ttl", "srem", "setex"}
    /\ ra_fails_left > 0
    /\ ra_fails_left' = ra_fails_left - 1
    /\ refresh' = IdleRefresh
    /\ UNCHANGED <<ra_cache, users, users_id_seq, access_counts,
                   hot_items, refresh_stats, ra_calls, scan_low,
                   lookup_failed, rewritten, flush_task, refresh_task,
                   lifespan, worker_errors>>

\* redis.ttl, redis.srem or the redis.setex of _refresh_user raises: the
\* except branch of the key logs it and the loop goes on
refresh_key_raises ==
    /\ refresh.pc \in {"ttl", "srem", "setex"}
    /\ ra_fails_left > 0
    /\ ra_fails_left' = ra_fails_left - 1
    /\ refresh' \in next_item(refresh.items)
    /\ UNCHANGED <<ra_cache, users, users_id_seq, access_counts,
                   hot_items, refresh_stats, ra_calls, scan_low,
                   lookup_failed, rewritten, flush_task, refresh_task,
                   lifespan, worker_errors>>

\* redis.smembers or redis.scard raises: the exception leaves
\* _refresh_hot_items and "except Exception" of the worker logs it
refresh_tick_raises ==
    /\ refresh.pc \in {"smembers", "scard"}
    /\ refresh' = IdleRefresh
    /\ refresh_task' = on_error
    /\ worker_errors' = [worker_errors EXCEPT !.ra = logged(@)]
    /\ UNCHANGED <<ra_cache, users, users_id_seq, access_counts,
                   hot_items, refresh_stats, ra_calls, ra_fails_left,
                   scan_low, lookup_failed, rewritten, flush_task, lifespan>>

\* the service that runs in a behaviour
Services == {"wb", "ra"}

\* refresh-ahead after get_user was called ACCESS_THRESHOLD times for each
\* of two users that have a row: both keys are cached and hot
HotInit ==
    /\ users = [i \in Ids |-> SeedRow(i)]
    /\ users_id_seq = Cardinality(Ids)
    /\ ra_cache = [k \in {cache_key(i) : i \in Ids} |->
                     [value |-> json_dumps(SeedRow(key_user_id(k))),
                      ttl |-> CACHE_TTL]]
    /\ access_counts = [k \in {cache_key(i) : i \in Ids} |-> ACCESS_THRESHOLD]
    /\ hot_items = {cache_key(i) : i \in Ids}
    /\ refresh_stats = [total_reads |-> Cardinality(Ids) * ACCESS_THRESHOLD,
                        cache_hits |-> Cardinality(Ids) * (ACCESS_THRESHOLD - 1),
                        cache_misses |-> Cardinality(Ids),
                        proactive_refreshes |-> 0,
                        hot_items |-> Cardinality(Ids)]
    /\ refresh = IdleRefresh
    /\ ra_calls = [c \in Callers |-> IdleRa]
    /\ ra_fails_left = MaxFails
    /\ scan_low = {}
    /\ lookup_failed = {}
    /\ rewritten = Empty

StopInit ==
    /\ WbInit
    /\ HotInit
    /\ WtInit
    /\ RunInit
    /\ \E svc \in Services :
         /\ lifespan = [s \in Services |-> IF s = svc THEN "serving" ELSE "off"]
         /\ flush_task = IF svc = "wb" THEN "running" ELSE "done"
         /\ refresh_task = IF svc = "ra" THEN "running" ELSE "done"
    /\ worker_errors = [s \in Services |-> 0]

\* the steps of the event loop that end a shutdown
StopSteps ==
    \/ flush_cancelled /\ UNCHANGED <<ra_vars, wt_vars, run_vars>>
    \/ wb_stop_return /\ UNCHANGED <<ra_vars, wt_vars, run_vars>>
    \/ wb_close_pool /\ UNCHANGED <<ra_vars, wt_vars, run_vars>>
    \/ wb_close_redis /\ UNCHANGED <<ra_vars, wt_vars, run_vars>>
    \/ refresh_cancelled /\ UNCHANGED <<wb_vars, wt_vars, run_vars>>
    \/ ra_stop_return /\ UNCHANGED <<wb_vars, wt_vars, run_vars>>
    \/ ra_close_pool /\ UNCHANGED <<wb_vars, wt_vars, run_vars>>
    \/ ra_close_redis /\ UNCHANGED <<wb_vars, wt_vars, run_vars>>

\* a flush call in progress takes its next step, unless it is the tick of
\* a task that is about to get its CancelledError
FlushSteps ==
    \/ flush_task # "cancelling" /\ FlushLpop
    \/ flush_task # "cancelling" /\ FlushExecute
    \/ flush_task # "cancelling" /\ FlushRaises
    \/ flush_task # "cancelling" /\ FlushRequeue
    \/ flush_task # "cancelling" /\ FlushReturn
    \/ \E f \in Flushers :
         /\ flush_task # "cancelling"
         /\ flush_redis_raises(f)
         /\ UNCHANGED <<ra_vars, wt_vars, run_vars>>
    \/ \E f \in Flushers :
         /\ flush_task # "cancelling"
         /\ flush_rpush_raises(f)
         /\ UNCHANGED <<ra_vars, wt_vars, run_vars>>

\* the refresh tick in progress takes its next step, unless its task is
\* about to get its CancelledError
RefreshSteps ==
    \/ /\ refresh_task = "running"
       /\ refresh_smembers /\ RaRest
    \/ /\ refresh_task = "running"
       /\ refresh_ttl /\ RaRest
    \/ /\ refresh_task = "running"
       /\ refresh_srem /\ RaRest
    \/ /\ refresh_task = "running"
       /\ refresh_fetch /\ RaRest
    \/ /\ refresh_task = "running"
       /\ refresh_fetch_raises /\ RaRest
    \/ /\ refresh_task = "running"
       /\ refresh_setex /\ RaRest
    \/ /\ refresh_task = "running"
       /\ refresh_scard /\ RaRest
    \/ /\ refresh_task = "running"
       /\ refresh_key_raises
       /\ UNCHANGED <<wb_vars, wt_vars, run_vars>>
    \/ /\ refresh_task = "running"
       /\ refresh_tick_raises
       /\ UNCHANGED <<wb_vars, wt_vars, run_vars>>

StopNext ==
    \/ /\ lifespan.wb = "serving"
       /\ \E c \in Callers, u \in UserInputs : wb_update_user(c, 1, u)
       /\ CallRest
    \/ \E c \in Callers : enqueue(c) /\ CallRest
    \/ \E c \in Callers : wb_llen(c) /\ CallRest
    \/ flush_task = "running" /\ FlushStart
    \/ FlushSteps
    \/ wb_stop_cancel /\ UNCHANGED <<ra_vars, wt_vars, run_vars>>
    \/ /\ lifespan.ra = "serving"
       /\ refresh_stats.proactive_refreshes < MaxRefreshes
       /\ ra_advance /\ RaRest
    \/ /\ refresh_task = "running"
       /\ refresh_start /\ RaRest
    \/ RefreshSteps
    \/ ra_stop_cancel /\ UNCHANGED <<wb_vars, wt_vars, run_vars>>
    \/ StopSteps

\* the event loop runs every task that can take a step: a sleeping worker
\* wakes up, a cancelled task gets its CancelledError, a call in progress
\* goes on, and the stop operation returns when the task is done
StopSpec ==
    /\ StopInit
    /\ [][StopNext]_vars
    /\ WF_vars(flush_task = "running" /\ FlushStart)
    /\ WF_vars(FlushSteps)
    /\ WF_vars(refresh_task = "running" /\ refresh_start /\ RaRest)
    /\ WF_vars(RefreshSteps)
    /\ WF_vars(StopSteps)

(* ------------------------------------------------------------------ *)
(* Claims about failing and cancelled ticks                            *)
(* ------------------------------------------------------------------ *)
\* C22: no loss of in-flight mutations.  In every reachable state each
\* enqueued mutation that has not been applied stands in the queue or in the
\* batch of a flush that is still running, also after a tick has ended by
\* the cancellation of the worker or by a failure of the re-queueing rpush.
C22_NoLoss ==
    \A t \in enqueued : t \in applied \/ Places(t) >= 1

\* stop_flush_worker has returned
WbStopped ==
    lifespan.wb \in {"flushing", "raised", "closing_redis", "closed"}

\* stop_refresh_worker has returned
RaStopped == lifespan.ra \in {"closing_pool", "closing_redis", "closed"}

\* C23: cooperative cancellation.  A worker task that has been cancelled
\* never runs again: its tick takes no further step and no new tick starts.
\* The CancelledError ends the tick; of the refresh tick at most the store
\* call it was suspended at still lands (the srem of its key, or the setex
\* of its key with the row it holds), no access count, row or counter
\* changes, and once the task is done the refresh worker changes nothing
\* any more.  The task ends and the stop operation returns; and after the
\* stop operation has returned the task is done and no tick of it is in
\* progress, up to the end of lifespan.
C23_CooperativeCancel ==
    /\ [][/\ flush_task # "running" =>
               /\ flush_task' # "running"
               /\ flush'["worker"] \in {flush["worker"], IdleFlush}
          /\ refresh_task # "running" =>
               /\ refresh_task' # "running"
               /\ refresh' \in {refresh, IdleRefresh}
          /\ (refresh_task = "cancelling" /\ refresh_task' = "done") =>
               /\ users' = users
               /\ access_counts' = access_counts
               /\ refresh_stats' = refresh_stats
               /\ \/ hot_items' = hot_items /\ ra_cache' = ra_cache
                  \/ /\ refresh.pc = "srem"
                     /\ hot_items' = hot_items \ {refresh.key}
                     /\ ra_cache' = ra_cache
                  \/ /\ refresh.pc = "setex"
                     /\ hot_items' = hot_items
                     /\ DOMAIN ra_cache' = DOMAIN ra_cache \cup {refresh.key}
                     /\ \A k \in DOMAIN ra_cache \ {refresh.key} :
                           ra_cache'[k] = ra_cache[k]
                     /\ json_loads(ra_cache'[refresh.key].value)
                          = refresh.row
          /\ (refresh_task = "done" /\ lifespan.ra # "off") =>
               /\ RaStoresUnchanged
               /\ hot_items' = hot_items]_vars
    /\ [](WbStopped => flush_task = "done" /\ flush["worker"] = IdleFlush)
    /\ [](RaStopped => refresh_task = "done" /\ refresh = IdleRefresh)
    /\ (flush_task = "cancelling") ~> (flush_task = "done" /\ WbStopped)
    /\ (refresh_task = "cancelling") ~> (refresh_task = "done" /\ RaStopped)
    /\ RaStopped ~> (lifespan.ra = "closed")
    /\ WbStopped ~> (lifespan.wb \in {"closed", "raised"})

\* the write-behind service has shut down, the pool and redis closed, after
\* its worker was cancelled in the middle of a batch: no store call has
\* failed, and a mutation is neither applied nor queued
C23_Witness ==
    /\ lifespan.wb = "closed"
    /\ flush_task = "done"
    /\ fails_left = MaxFails
    /\ worker_errors.wb = 0
    /\ failed = {}
    /\ \E t \in enqueued :
         t \notin applied /\ Places(t) = 0

\* a store call of the refresh tick raises for the key the tick is at
KeyRaises ==
    /\ TickStep
    /\ refresh.pc \in {"ttl", "srem", "fetch", "setex"}
    /\ ra_fails_left' < ra_fails_left

\* the keys of the snapshot the tick has not gone through yet
ToCheck(r) == r.items \cup ({r.key} \ {NoKey})

\* C25: per-key isolation.  When a cache or durable-store call of a refresh
\* tick raises for a hot key, the tick goes on with the next key of its
\* snapshot, or to its end after the last one; no key that is still to be
\* checked is dropped by any step of the scan; and the failing key stays in
\* the Hot Set with its cache entry as it was.
C25_PerKeyIsolation ==
    [][/\ KeyRaises =>
            /\ refresh' \in next_item(refresh.items)
            /\ refresh_task' = "running"
            /\ hot_items' = hot_items
            /\ refresh.key \in hot_items'
            /\ RaStoresUnchanged
       /\ (TickStep /\ refresh_task = "running"
              /\ refresh.pc \in {"ttl", "srem", "fetch", "setex"}) =>
            /\ ToCheck(refresh') \subseteq ToCheck(refresh)
            /\ ToCheck(refresh) \ ToCheck(refresh') \subseteq {refresh.key}]_vars

\* a call raised for one key of a snapshot of two keys that were both
\* due, and the tick has rewritten the entry of the other key
C25_Witness ==
    /\ refresh.pc = "scard"
    /\ ra_fails_left < MaxFails
    /\ Cardinality(scan_low) = 2
    /\ Cardinality(DOMAIN rewritten) = 1
    /\ hot_items = {cache_key(i) : i \in Ids}

\* the tick of the running flush worker ends: an exception leaves it at
\* its lpop or at the rpush of its except branch, or it ends at its llen,
\* by an exception or by its return
FlushTickRaises ==
    /\ flush_task = "running"
    /\ flush["worker"].pc \in {"pop", "requeue", "llen"}
    /\ flush'["worker"] = IdleFlush

\* the tick of the running refresh worker ends at its smembers or at its
\* scard, by an exception or by its return
RefreshTickRaises ==
    /\ refresh_task = "running"
    /\ refresh.pc \in {"smembers", "scard"}
    /\ refresh' = IdleRefresh

\* C26: the worker survives tick errors.  An exception that leaves a tick,
\* at whichever store call of the tick and for the first time or after
\* earlier failing ticks, leaves the worker task running and asleep, and a
\* running worker that is asleep starts another tick unless it is cancelled
\* first, after every failing tick.
C26_WorkerSurvives ==
    /\ [][/\ FlushTickRaises => flush_task' = "running"
          /\ RefreshTickRaises => refresh_task' = "running"
          /\ worker_errors' # worker_errors =>
               /\ flush_task' = flush_task
               /\ refresh_task' = refresh_task]_vars
    /\ (flush_task = "running" /\ flush["worker"].pc = "idle")
          ~> (flush["worker"].pc = "pop" \/ flush_task # "running")
    /\ (refresh_task = "running" /\ refresh.pc = "idle")
          ~> (refresh.pc = "smembers" \/ refresh_task # "running")

\* two ticks of the flush worker have ended with an exception, one of them
\* at the rpush of its except branch, which lost the write; the task still
\* runs and a later tick has popped a mutation
C26_Witness ==
    /\ flush_task = "running"
    /\ lifespan.wb = "serving"
    /\ worker_errors.wb = MaxErrors
    /\ flush["worker"].pc = "process"
    /\ \E t \in failed : t \notin applied /\ Places(t) = 0

(* ------------------------------------------------------------------ *)
(* Foreground calls of the write-behind service a store call at a      *)
(* time: get_user awaits redis.get, db.fetchrow and redis.setex, and   *)
(* the rpush of a write call may raise after the cache was changed     *)
(* ------------------------------------------------------------------ *)
CallNext ==
    \/ \E id \in Ids : wb_read_get(id) /\ CallRest
    \/ ReadStep
    \/ CreateUser
    \/ UpdateUser
    \/ DeleteUser
    \/ CallStep
    \/ \E c \in Callers : wb_rpush_raises(c) /\ CallRest
    \/ FlushStart
    \/ FlushLpop
    \/ FlushExecute
    \/ FlushReturn

CallSpec == Init /\ [][CallNext]_vars

(* ------------------------------------------------------------------ *)
(* Refresh-ahead with concurrent request handlers: get_user calls run  *)
(* while a delete_user call is between two of its store calls          *)
(* ------------------------------------------------------------------ *)
ConcNext ==
    \/ RaReadSteps
    \/ RaCreateSteps
    \/ RaDeleteSteps

ConcSpec == RowInit /\ [][ConcNext]_vars

(* ------------------------------------------------------------------ *)
(* Claims about the state the stores end in                            *)
(* ------------------------------------------------------------------ *)
\* the queue is empty and no call of _flush_to_database is running
Drained == write_queue = <<>> /\ NoFlushInProgress

\* C31: write-behind convergence.  After updates and deletes of seeded ids
\* (no create), once the queue has drained and no db.execute has raised,
\* the row of every id whose last write-behind call was an update carries
\* the value of that update, and an id whose last call was a delete has no
\* row, however worker ticks and manual flushes were interleaved.
C31_Convergence ==
    (Drained /\ NoWriteInProgress /\ failed = {} /\ user_id_counter = 0) =>
        \A id \in Ids :
            /\ (id \in DOMAIN written /\ id \in DOMAIN users) =>
                 users[id] = written[id]
            /\ id \in deleted => id \notin DOMAIN users

\* C32: write-behind create identity.  When db.execute has applied a queued
\* create, a read of the id that create_user returned and cached the user
\* under, missing the cache, finds the created user: the row of that id in
\* the users table is the dict the create queued.
C32_CreateIdentity ==
    [][\A f \in Flushers :
         (/\ flush[f].pc = "process"
          /\ current_write(f).operation = "create"
          /\ current_write(f).timestamp \in applied' \ applied) =>
             fetchrow(users', current_write(f).user.id) = current_write(f).user]_vars

\* C33: a read fill does not undo a write-behind write.  Whenever no
\* get_user call is between its store calls, the cache entry of every id
\* whose last write-behind call was a create or an update holds the value of
\* that call: the fill of a read that ran while the update was made has not
\* replaced it.
C33_FillKeepsWrite ==
    wb_read.pc = "idle" =>
        \A id \in DOMAIN written :
            /\ cache_key(id) \in DOMAIN wb_cache
            /\ json_loads(wb_cache[cache_key(id)]) = written[id]

\* C34: refresh does not install stale data.  Once the refresh tick and the
\* foreground calls have completed, the cache entry of every key the tick
\* has rewritten, if it is present, is the row the users table holds for
\* that id: a reload that read the row before an update or a delete has not
\* written the old row after the update or the delete.
C34_NoStaleRefresh ==
    (refresh.pc = "idle" /\ NoRaCall) =>
        \A k \in DOMAIN rewritten \cap DOMAIN ra_cache :
            /\ key_user_id(k) \in DOMAIN users
            /\ json_loads(ra_cache[k].value) = users[key_user_id(k)]

\* C35: write-behind is all-or-nothing on enqueue failure.  Whenever no
\* write call is in progress, every change a create, update or delete has
\* made to the cache has had its mutation put into the queue: the number
\* of cache changes made by write calls is the number of accepted writes,
\* also after a call whose rpush raised.
C35_AllOrNothing ==
    NoWriteInProgress => cache_changes = write_stats.cached_writes

\* C36: hot implies counted.  Whenever no delete_user call is between its
\* store calls, every key of the hot set has an access count of at least
\* ACCESS_THRESHOLD, also when reads ran between the srem and the hdel of a
\* delete_user.
C36_HotImpliesCounted ==
    (\A c \in Callers : ra_calls[c].op # "delete") =>
        \A k \in hot_items : access_count(access_counts, k) >= ACCESS_THRESHOLD

(* ------------------------------------------------------------------ *)
(* Claims about a mutation that keeps failing                          *)
(* ------------------------------------------------------------------ *)
\* the writes that are queued or held by a flush that has not dealt with
\* them yet
Pending ==
    {json_loads(write_queue[n]) : n \in 1..Len(write_queue)}
        \cup UNION {{flush[f].writes[n] :
                        n \in (IF flush[f].pc = "pop" THEN 1
                               ELSE IF flush[f].pc \in {"process", "requeue"}
                               THEN flush[f].i
                               ELSE Len(flush[f].writes) + 1)
                              ..Len(flush[f].writes)} : f \in Flushers}

\* the mutation with timestamp t is pending and its statement violates a
\* constraint of the users table as the table is now: db.execute raises for
\* it on every attempt
Poison(t) == \E w \in Pending : w.timestamp = t /\ db_raises(users, w)

\* backlogs behind the failing mutation
PoisonBacklogs == {1, 2, 3}

\* a queue with a failing mutation at its head: update_user(2, ...) with
\* the email of user 1 was called first, then the backlog of updates of
\* user 1; every later tick finds the unique violation again
PoisonStart(n) ==
    /\ backlog = n
    /\ write_queue =
         <<json_dumps([operation |-> "update",
                       user |-> model_dump(2, TestUser), timestamp |-> 0])>>
            \o [k \in 1..backlog |-> json_dumps(BacklogWrite(k))]
    /\ wb_cache = setex(setex(Empty, cache_key(2),
                              json_dumps(model_dump(2, TestUser))),
                        cache_key(1), json_dumps(BacklogWrite(backlog).user))
    /\ written = remember(remember(Empty, 2, model_dump(2, TestUser)),
                          1, BacklogWrite(backlog).user)
    /\ write_stats = [cached_writes |-> backlog + 1, db_flushes |-> 0,
                      pending_writes |-> backlog + 1, last_flush |-> FALSE]
    /\ user_id_counter = 0
    /\ users = [i \in Ids |-> SeedRow(i)]
    /\ users_id_seq = Cardinality(Ids)
    /\ flush = [f \in Flushers |-> IdleFlush]
    /\ fails_left = 0
    /\ failed = {}
    /\ applied = {}
    /\ enqueued = 0..backlog
    /\ cache_changes = backlog + 1
    /\ deleted = {}
    /\ ticks = [f \in Flushers |-> 0]
    /\ RaInit
    /\ OtherInit

PoisonInit == \E n \in PoisonBacklogs : PoisonStart(n)

\* the timestamp of the update a client makes while the failing mutation is
\* queued
NewWrite == backlog + 2

\* a client posts /flush, also while a tick of the worker is running
ForceStart == flush_start("manual") /\ WbRest

\* the calls of _flush_to_database that have returned are counted up to the
\* number after which the backlog must have been applied
TickBound == CeilDiv(backlog + 1, BATCH_SIZE)

\* a call of _flush_to_database returns
poison_return(f) ==
    /\ flush_return(f)
    /\ ticks' = [ticks EXCEPT ![f] = IF TotalTicks < TickBound THEN @ + 1
                                     ELSE @]
    /\ UNCHANGED <<backlog, ra_vars, other_vars>>

\* a client updates a user while the failing mutation is queued
PoisonUpdate ==
    \E id \in Ids : wb_update_user(1, id, UpdatedUser) /\ CallRest

\* the worker keeps ticking, forced flushes overlap its ticks, and a client
\* updates a user once while the failing mutation is queued; db.execute raises
\* for every statement that violates the constraint
PoisonNext ==
    \/ FlushStart
    \/ ForceStart
    \/ FlushLpop
    \/ FlushExecute
    \/ CrashFlushRaises
    \/ FlushRequeue
    \/ \E f \in Flushers : poison_return(f)
    \/ PoisonUpdate
    \/ \E c \in Callers : enqueue(c) /\ CallRest
    \/ \E c \in Callers : wb_llen(c) /\ CallRest

\* the next step of the call f of _flush_to_database that is running
FlushStepOf(f) ==
    \/ /\ \/ flush_lpop(f)
          \/ flush_execute(f)
          \/ /\ flush[f].pc = "process"
             /\ db_raises(users, current_write(f))
             /\ flush_raises(f)
          \/ flush_requeue(f)
       /\ WbRest
    \/ poison_return(f)

\* the worker wakes up after every interval, and a call of
\* _flush_to_database that is running gets its store calls answered
PoisonSpec ==
    /\ PoisonInit
    /\ [][PoisonNext]_vars
    /\ WF_vars(FlushStart)
    /\ \A f \in Flushers : WF_vars(FlushStepOf(f))

BatchInit == PoisonStart(BATCH_SIZE)

BatchNext ==
    \/ DrainNext
    \/ CrashFlushRaises
    \/ FlushRequeue

BatchSpec == BatchInit /\ [][BatchNext]_vars

\* C20: FIFO within a tick.  A call of _flush_to_database holds at most
\* BATCH_SIZE writes; every pop takes the head of the queue and puts it at
\* the end of the batch, so the batch is in queue order; the writes of the
\* batch are executed one at a time from its first to its last: while the
\* call is at writes[i], every write before i has been applied or has
\* raised and no write from i on has been applied, and a step of the loop
\* applies no write but writes[i].  This holds when another write of the
\* batch raises and when the tick of the worker and a forced flush overlap.
C20_FifoWithinTick ==
    /\ [](\A f \in Flushers :
            /\ Len(flush[f].writes) <= BATCH_SIZE
            /\ flush[f].pc \in {"process", "requeue"} =>
                 /\ \A n \in 1..(flush[f].i - 1) :
                       flush[f].writes[n].timestamp \in applied \cup failed
                 /\ \A n \in flush[f].i..Len(flush[f].writes) :
                       flush[f].writes[n].timestamp \notin applied)
    /\ [][\A f \in Flushers :
            /\ (flush[f].pc = "pop"
                   /\ flush'[f].writes # flush[f].writes) =>
                 /\ write_queue # <<>>
                 /\ flush'[f].writes =
                      Append(flush[f].writes, json_loads(Head(write_queue)))
                 /\ write_queue' = Tail(write_queue)
            /\ (flush[f].pc \in {"process", "requeue"}
                   /\ flush'[f] # flush[f]) =>
                 /\ flush'[f].writes = flush[f].writes
                 /\ flush'[f].i \in {flush[f].i, flush[f].i + 1}
                 /\ applied' \subseteq
                      applied \cup {flush[f].writes[flush[f].i].timestamp}
                 /\ flush'[f].i = flush[f].i + 1 =>
                      flush[f].writes[flush[f].i].timestamp
                          \in applied' \cup failed']_vars

\* the worker popped a full batch with the failing update at its head; the
\* update raised and was re-queued, the two writes behind it have been
\* applied in their order and the fourth is next, while a forced flush that
\* popped the rest of the queue is running
C20_Witness ==
    /\ flush["worker"].pc = "process"
    /\ Len(flush["worker"].writes) = BATCH_SIZE
    /\ flush["worker"].writes[1].timestamp = 0
    /\ flush["worker"].i = 4
    /\ applied = {1, 2}
    /\ 0 \in failed
    /\ flush["manual"].pc = "process"
    /\ flush["manual"].writes[1].timestamp = BATCH_SIZE

(* ------------------------------------------------------------------ *)
(* Hot set over time: MaxReads get_user calls, update_user and         *)
(* delete_user calls, the clock and the refresh worker, a store call   *)
(* at a time and in any interleaving; no user is created, so that the  *)
(* key of an id without a user can be read again and again             *)
(* ------------------------------------------------------------------ *)
PromoteNext ==
    \/ RaReadSteps
    \/ RaUpdateSteps
    \/ RaDeleteSteps
    \/ RefreshWorker

PromoteSpec == RowInit /\ [][PromoteNext]_vars

\* C38: re-promotion after demotion.  The Demoting step of a tick takes a
\* key out of the hot set and leaves every access count as it is; the
\* hincrby of a read of a key whose count has reached ACCESS_THRESHOLD
\* sends the read to its sadd, and the sadd puts the key into the hot set,
\* whether or not a user with that id exists.
C38_RePromotion ==
    [][\A id \in Ids :
         LET k == cache_key(id)
         IN  /\ (k \in hot_items /\ k \notin hot_items' /\ TickStep) =>
                  /\ refresh.pc = "srem"
                  /\ access_counts' = access_counts
             /\ \A c \in Callers :
                  /\ (/\ ra_calls[c].pc = "hincrby"
                      /\ ra_calls[c].id = id
                      /\ ra_calls'[c] # ra_calls[c]
                      /\ access_count(access_counts, k)
                           >= ACCESS_THRESHOLD) =>
                       ra_calls'[c].pc = "sadd"
                  /\ (/\ ra_calls[c].pc = "sadd"
                      /\ ra_calls[c].id = id
                      /\ ra_calls'[c] # ra_calls[c]) =>
                       k \in hot_items']_vars

\* the key of an id that never existed was hot after three reads, the tick
\* that is now at its scard went through it and demoted it (it has no
\* entry), and the fourth read has made it hot again
C38_Witness ==
    \E id \in Ids :
        /\ id \notin DOMAIN users
        /\ users_id_seq < id
        /\ cache_key(id) \notin DOMAIN ra_cache
        /\ refresh.pc = "scard"
        /\ cache_key(id) \in hot_items
        /\ access_count(access_counts, cache_key(id)) = ACCESS_THRESHOLD + 1

\* C39: write-behind stats accounting.  Whenever no write call and no
\* flush is in progress, cached_writes = db_flushes + the length of the
\* queue and pending_writes = the length of the queue, whatever db.execute
\* calls have raised and however the calls and the flushes interleaved:
\* every accepted write was counted once and is either still queued or was
\* flushed successfully once.
C39_StatsAccounting ==
    (NoFlushInProgress /\ NoWriteInProgress) =>
        /\ write_stats.cached_writes =
             write_stats.db_flushes + Len(write_queue)
        /\ write_stats.pending_writes = Len(write_queue)

\* a tick has ended in which one write was flushed and another one raised
\* and was re-queued: two writes counted, one flushed, one pending
C39_Witness ==
    /\ NoFlushInProgress
    /\ NoWriteInProgress
    /\ write_stats.last_flush
    /\ failed # {}
    /\ write_stats.cached_writes = 2
    /\ write_stats.db_flushes = 1
    /\ write_stats.pending_writes = 1
    /\ Len(write_queue) = 1

====
